---- MODULE Spec2Model ----
(***************************************************************************)
(* A model of the data-flow tracer of exercise8/analysis.py                *)
(* (DataFlowAnalyzer, _AssignmentCollector) and of the requirements        *)
(* parser of exercise4/exercise4.py (parse_requirements_yaml).             *)
(*                                                                         *)
(* The syntax tree produced by ast.parse is the input: a sequence of       *)
(* statement nodes, each node a record tagged by its kind k.               *)
(***************************************************************************)
EXTENDS Integers, Sequences, FiniteSets, TLC

(***************************************************************************)
(* Bounds of the model.                                                    *)
(***************************************************************************)
\* integer literals c of the programs range over 0..MaxInt (and their negations)
MaxInt == 2
\* run_pipeline is called up to MaxRuns times on one analyzer
MaxRuns == 2
\* module-level statement sequences of the collector family have up to MaxStmts statements
MaxStmts == 3
\* a compact requirements entry is written in up to MaxPieces pieces
MaxPieces == 3
\* a requirements mapping has up to MaxItems items
MaxItems == 3
\* a requirement text is written in up to MaxWords pieces
MaxWords == 4

(***************************************************************************)
(* The state.                                                              *)
(***************************************************************************)
VARIABLES
  tree,                \* self.tree.body: the statements of the parsed module
  assignment_map,      \* self.assignment_map
  assignment_records,  \* self.assignment_records
  collector,           \* the _AssignmentCollector of the running parse_assignments
  todo,                \* the visits the collector's traversal still has to make
  pc,                  \* the position of run_pipeline
  run,                 \* the number of calls of run_pipeline so far
  module_env, val2_value, flow_nodes, func_def, call_assign,
  param_env, local_env, walk_i, res_value,   \* the locals of generate_flow
  evals,               \* the evaluations the running trace has made, in order
  history,             \* what each finished run_pipeline returned or raised, and left
  raw_data,            \* exercise4: what yaml.safe_load returned
  entry,               \* exercise4: raw_data[0]
  raw_pos, matches,    \* exercise4: where findall searches next, and what it has found
  item_i,              \* exercise4: the index of the pair the running loop is at
  requirements,        \* exercise4: the dict being filled
  req_pc,              \* exercise4: the position of parse_requirements_yaml
  req_result,          \* exercise4: what parse_requirements_yaml returned or raised
  call,                \* exercise4: the call of a text function: its name and arguments
  txt_pc,              \* exercise4: the position of the called text function
  segments, seg_i,     \* exercise4: the clauses of the text, and the loop's index in them
  clauses,             \* exercise4: the clauses extract_security_clauses has kept
  found,               \* exercise4: matches, the defaultdict(set) of the lookup
  prin_i, ent_i,       \* exercise4: the indexes of the principle and entry looked at
  txt_result           \* exercise4: what the text function returned or raised

analyzerVars == <<assignment_map, assignment_records>>
reqVars == <<raw_data, entry, raw_pos, matches, item_i, requirements, req_pc, req_result>>
textVars == <<call, txt_pc, segments, seg_i, clauses, found, prin_i, ent_i, txt_result>>
collectVars == <<collector, todo>>
flowVars == <<module_env, val2_value, flow_nodes, func_def, call_assign,
              param_env, local_env, walk_i, res_value>>

(***************************************************************************)
(* Python values.  Every value is a record with the same fields: t the     *)
(* type, n the number of an int or bool, s the text of a str, e the        *)
(* elements of a tuple.                                                    *)
(***************************************************************************)
VInt(n) == [t |-> "int", n |-> n, s |-> "", e |-> <<>>]
VBool(b) == [t |-> "bool", n |-> IF b THEN 1 ELSE 0, s |-> "", e |-> <<>>]
VStr(s) == [t |-> "str", n |-> 0, s |-> s, e |-> <<>>]
VNone == [t |-> "none", n |-> 0, s |-> "", e |-> <<>>]
VTuple(elts) == [t |-> "tuple", n |-> 0, s |-> "", e |-> elts]

IsNumber(v) == v.t \in {"int", "bool"}

\* The outcome of a call: a returned value, or a raised exception of class err.
Ok(v) == [ok |-> TRUE, v |-> v, err |-> "", msg |-> ""]
Raise(err, msg) == [ok |-> FALSE, v |-> VNone, err |-> err, msg |-> msg]

\* a == b of Python: bool is a subclass of int, tuples compare element-wise.
RECURSIVE PyEq(_, _)
PyEq(a, b) ==
  IF IsNumber(a) /\ IsNumber(b) THEN a.n = b.n
  ELSE IF a.t = "tuple" /\ b.t = "tuple"
    THEN /\ Len(a.e) = Len(b.e)
         /\ \A i \in 1..Len(a.e) : PyEq(a.e[i], b.e[i])
  ELSE a = b

\* -a of Python
PyNeg(a) ==
  IF IsNumber(a) THEN Ok(VInt(0 - a.n))
  ELSE Raise("TypeError", "")

\* a + b of Python
PyAdd(a, b) ==
  IF IsNumber(a) /\ IsNumber(b) THEN Ok(VInt(a.n + b.n))
  ELSE IF a.t = "str" /\ b.t = "str" THEN Ok(VStr(a.s \o b.s))
  ELSE IF a.t = "tuple" /\ b.t = "tuple" THEN Ok(VTuple(a.e \o b.e))
  ELSE Raise("TypeError", "")

\* a - b of Python
PySub(a, b) ==
  IF IsNumber(a) /\ IsNumber(b) THEN Ok(VInt(a.n - b.n))
  ELSE Raise("TypeError", "")

\* bool(a) of Python
Truthy(a) ==
  CASE IsNumber(a) -> a.n # 0
    [] a.t = "str" -> a.s # ""
    [] a.t = "tuple" -> a.e # <<>>
    [] OTHER -> FALSE

RECURSIVE Join(_, _)
Join(strs, sep) ==
  IF strs = <<>> THEN ""
  ELSE IF Len(strs) = 1 THEN strs[1]
  ELSE strs[1] \o sep \o Join(Tail(strs), sep)

\* repr(a) and str(a) of Python
RECURSIVE PyRepr(_)
PyRepr(a) ==
  CASE a.t = "int" -> ToString(a.n)
    [] a.t = "bool" -> IF a.n = 1 THEN "True" ELSE "False"
    [] a.t = "str" -> "'" \o a.s \o "'"
    [] a.t = "none" -> "None"
    [] a.t = "tuple" ->
         IF Len(a.e) = 1 THEN "(" \o PyRepr(a.e[1]) \o ",)"
         ELSE "(" \o Join([i \in 1..Len(a.e) |-> PyRepr(a.e[i])], ", ") \o ")"

PyStr(a) == IF a.t = "str" THEN a.s ELSE PyRepr(a)

(***************************************************************************)
(* Python dicts: insertion-ordered sequences of <<key, value>> pairs.      *)
(***************************************************************************)
DictHas(d, key) == \E i \in 1..Len(d) : d[i][1] = key

DictGet(d, key, default) ==
  IF DictHas(d, key)
  THEN d[CHOOSE i \in 1..Len(d) : d[i][1] = key][2]
  ELSE default

\* d[key] = value : replaces the value of an existing key in place, appends a new key
DictSet(d, key, value) ==
  IF DictHas(d, key)
  THEN [i \in 1..Len(d) |-> IF d[i][1] = key THEN <<key, value>> ELSE d[i]]
  ELSE Append(d, <<key, value>>)

DictKeys(d) == [i \in 1..Len(d) |-> d[i][1]]

\* dict(zip(keys, values)): pairs up to the shorter of the two, in order
RECURSIVE DictZipOnto(_, _, _)
DictZipOnto(d, keys, values) ==
  IF keys = <<>> \/ values = <<>> THEN d
  ELSE DictZipOnto(DictSet(d, Head(keys), Head(values)), Tail(keys), Tail(values))

DictZip(keys, values) == DictZipOnto(<<>>, keys, values)

(***************************************************************************)
(* Syntax nodes (the ast module's node classes and fields).                *)
(***************************************************************************)
Constant(v) == [k |-> "Constant", value |-> v]
Num(c) == Constant(VInt(c))
Name(id) == [k |-> "Name", id |-> id]
UnaryOp(op, operand) == [k |-> "UnaryOp", op |-> op, operand |-> operand]
BinOp(left, op, right) == [k |-> "BinOp", left |-> left, op |-> op, right |-> right]
Compare(left, ops, comparators) ==
  [k |-> "Compare", left |-> left, ops |-> ops, comparators |-> comparators]
Tuple(elts) == [k |-> "Tuple", elts |-> elts]
Call(func, args) == [k |-> "Call", func |-> func, args |-> args]
Attribute(value, attr) == [k |-> "Attribute", value |-> value, attr |-> attr]
Assign(targets, value) == [k |-> "Assign", targets |-> targets, value |-> value]
If(test, body, orelse) == [k |-> "If", test |-> test, body |-> body, orelse |-> orelse]
While(test, body, orelse) == [k |-> "While", test |-> test, body |-> body, orelse |-> orelse]
Return(value) == [k |-> "Return", hasValue |-> TRUE, value |-> value]
ReturnBare == [k |-> "Return", hasValue |-> FALSE, value |-> Constant(VNone)]
Expr(value) == [k |-> "Expr", value |-> value]
FunctionDef(name, args, body) == [k |-> "FunctionDef", name |-> name, args |-> args, body |-> body]

\* Python writes a negative literal -c as UnaryOp(USub, Constant(c)).
Lit(c) == IF c < 0 THEN UnaryOp("USub", Num(0 - c)) ELSE Num(c)

(***************************************************************************)
(* DataFlowAnalyzer: the two evaluators.                                   *)
(***************************************************************************)
\* _evaluate_literal(node)
RECURSIVE EvaluateLiteral(_)
RECURSIVE EvaluateLiteralElts(_)
EvaluateLiteral(node) ==
  IF node.k = "Constant" THEN Ok(node.value)
  ELSE IF node.k = "UnaryOp" /\ node.op = "USub"
    THEN LET operand == EvaluateLiteral(node.operand)
         IN IF operand.ok THEN PyNeg(operand.v) ELSE operand
  ELSE IF node.k = "Tuple" THEN EvaluateLiteralElts(node.elts)
  ELSE Raise("ValueError", "Unsupported literal node")

\* tuple(self._evaluate_literal(elt) for elt in node.elts)
EvaluateLiteralElts(elts) ==
  IF elts = <<>> THEN Ok(VTuple(<<>>))
  ELSE LET first == EvaluateLiteral(Head(elts))
       IN IF ~first.ok THEN first
          ELSE LET rest == EvaluateLiteralElts(Tail(elts))
               IN IF ~rest.ok THEN rest
                  ELSE Ok(VTuple(<<first.v>> \o rest.v.e))

\* the operator dispatch of a BinOp node (lines 122-126)
ApplyBinOp(op, left, right) ==
  IF op = "Add" THEN PyAdd(left, right)
  ELSE IF op = "Sub" THEN PySub(left, right)
  ELSE Raise("ValueError", "Unsupported binary operation")

\* the operator dispatch of a Compare node (lines 134-139)
ApplyCompare(op, left, right) ==
  IF op = "Eq" THEN Ok(VBool(PyEq(left, right)))
  ELSE IF op = "NotEq" THEN Ok(VBool(~PyEq(left, right)))
  ELSE Raise("ValueError", "Unsupported comparison operator")

\* a faulty _evaluate_expression: a name that is not bound evaluates to None
RECURSIVE EvaluateExpressionDefault(_, _)
EvaluateExpressionDefault(node, env) ==
  IF node.k = "Name" THEN Ok(DictGet(env, node.id, VNone))
  ELSE IF node.k = "Constant" THEN Ok(node.value)
  ELSE IF node.k = "UnaryOp" /\ node.op = "USub"
    THEN LET operand == EvaluateExpressionDefault(node.operand, env)
         IN IF operand.ok THEN PyNeg(operand.v) ELSE operand
  ELSE IF node.k = "BinOp"
    THEN LET left == EvaluateExpressionDefault(node.left, env)
         IN IF ~left.ok THEN left
            ELSE LET right == EvaluateExpressionDefault(node.right, env)
                 IN IF ~right.ok THEN right
                    ELSE ApplyBinOp(node.op, left.v, right.v)
  ELSE IF node.k = "Compare"
    THEN LET left == EvaluateExpressionDefault(node.left, env)
         IN IF ~left.ok THEN left
            ELSE LET right == EvaluateExpressionDefault(node.comparators[1], env)
                 IN IF ~right.ok THEN right
                    ELSE ApplyCompare(node.ops[1], left.v, right.v)
  ELSE Raise("ValueError", "Unsupported expression node")

\* _evaluate_expression(node, env) and _evaluate_compare(node, env)
RECURSIVE EvaluateExpression(_, _)
RECURSIVE EvaluateCompare(_, _)
EvaluateExpression(node, env) ==
  IF node.k = "Name"
    THEN IF DictHas(env, node.id) THEN Ok(DictGet(env, node.id, VNone))
         ELSE Raise("KeyError", "Unknown name")
  ELSE IF node.k = "Constant" THEN Ok(node.value)
  ELSE IF node.k = "UnaryOp" /\ node.op = "USub"
    THEN LET operand == EvaluateExpression(node.operand, env)
         IN IF operand.ok THEN PyNeg(operand.v) ELSE operand
  ELSE IF node.k = "BinOp"
    THEN LET left == EvaluateExpression(node.left, env)
         IN IF ~left.ok THEN left
            ELSE LET right == EvaluateExpression(node.right, env)
                 IN IF ~right.ok THEN right
                    ELSE ApplyBinOp(node.op, left.v, right.v)
  ELSE IF node.k = "Compare" THEN EvaluateCompare(node, env)
  ELSE Raise("ValueError", "Unsupported expression node")

EvaluateCompare(node, env) ==
  LET left == EvaluateExpression(node.left, env)
  IN IF ~left.ok THEN left
     ELSE LET right == EvaluateExpression(node.comparators[1], env)
          IN IF ~right.ok THEN right
             ELSE ApplyCompare(node.ops[1], left.v, right.v)

(***************************************************************************)
(* Module-level helpers of analysis.py.                                    *)
(***************************************************************************)
\* a faulty _assignment_pairs: a tuple target is zipped with a tuple value of any length
AssignmentPairsZip(targets, value) ==
  IF Len(targets) = 1 /\ targets[1].k = "Tuple" /\ value.k = "Tuple"
  THEN [i \in 1..(IF Len(targets[1].elts) < Len(value.elts)
                  THEN Len(targets[1].elts) ELSE Len(value.elts)) |->
          <<targets[1].elts[i], value.elts[i]>>]
  ELSE [i \in 1..Len(targets) |-> <<targets[i], value>>]

\* _assignment_pairs(targets, value): a sequence of <<target node, value node>>
AssignmentPairs(targets, value) ==
  IF /\ Len(targets) = 1
     /\ targets[1].k = "Tuple"
     /\ value.k = "Tuple"
     /\ Len(targets[1].elts) = Len(value.elts)
  THEN [i \in 1..Len(value.elts) |-> <<targets[1].elts[i], value.elts[i]>>]
  ELSE [i \in 1..Len(targets) |-> <<targets[i], value>>]

\* _target_to_name(node): the str node.id, or None
TargetToName(node) == IF node.k = "Name" THEN VStr(node.id) ELSE VNone

\* the precedence levels ast.unparse uses
PrecTest == 2
PrecNot == 5
PrecCmp == 6
PrecArith == 12
PrecTerm == 13
PrecFactor == 14
PrecAtom == 17

BinOpText(op) == CASE op = "Add" -> "+" [] op = "Sub" -> "-" [] op = "Mult" -> "*" [] OTHER -> "?"
BinOpPrec(op) == IF op = "Mult" THEN PrecTerm ELSE PrecArith
UnaryOpText(op) == CASE op = "USub" -> "-" [] op = "UAdd" -> "+" [] op = "Not" -> "not " [] OTHER -> "?"
UnaryOpPrec(op) == IF op = "Not" THEN PrecNot ELSE PrecFactor
CmpOpText(op) == CASE op = "Eq" -> "==" [] op = "NotEq" -> "!=" [] op = "Lt" -> "<" [] OTHER -> "?"

Parens(need, text) == IF need THEN "(" \o text \o ")" ELSE text

\* _to_source(node) = ast.unparse(node), the node written at precedence prec
RECURSIVE Unparse(_, _)
RECURSIVE UnparseCompareRest(_, _, _)
Unparse(node, prec) ==
  CASE node.k = "Constant" -> PyRepr(node.value)
    [] node.k = "Name" -> node.id
    [] node.k = "UnaryOp" ->
         Parens(prec > UnaryOpPrec(node.op),
                UnaryOpText(node.op) \o Unparse(node.operand, UnaryOpPrec(node.op)))
    [] node.k = "BinOp" ->
         Parens(prec > BinOpPrec(node.op),
                Unparse(node.left, BinOpPrec(node.op)) \o " " \o BinOpText(node.op) \o " "
                  \o Unparse(node.right, BinOpPrec(node.op) + 1))
    [] node.k = "Compare" ->
         Parens(prec > PrecCmp,
                Unparse(node.left, PrecCmp + 1) \o UnparseCompareRest(node.ops, node.comparators, 1))
    [] node.k = "Tuple" ->
         IF Len(node.elts) = 1 THEN "(" \o Unparse(node.elts[1], PrecTest) \o ",)"
         ELSE "(" \o Join([i \in 1..Len(node.elts) |-> Unparse(node.elts[i], PrecTest)], ", ") \o ")"
    [] node.k = "Call" ->
         Unparse(node.func, PrecAtom) \o "("
           \o Join([i \in 1..Len(node.args) |-> Unparse(node.args[i], PrecTest)], ", ") \o ")"
    [] node.k = "Attribute" -> Unparse(node.value, PrecAtom) \o "." \o node.attr
    [] OTHER -> "?"

UnparseCompareRest(ops, comparators, i) ==
  IF i > Len(ops) THEN ""
  ELSE " " \o CmpOpText(ops[i]) \o " " \o Unparse(comparators[i], PrecCmp + 1)
         \o UnparseCompareRest(ops, comparators, i + 1)

ToSource(node) == Unparse(node, PrecTest)

\* Record(scope, target, value_node, expression)
Record(scope, target, value_node, expression) ==
  [scope |-> scope, target |-> target, value_node |-> value_node, expression |-> expression]

(***************************************************************************)
(* _AssignmentCollector.                                                   *)
(***************************************************************************)
\* a faulty NewCollector: the collector starts from what the analyzer already holds
NewCollectorReused ==
  [assignment_map |-> assignment_map, records |-> assignment_records,
   scope_stack |-> <<"module">>]

\* _AssignmentCollector.__init__
NewCollector == [assignment_map |-> <<>>, records |-> <<>>, scope_stack |-> <<"module">>]

\* a faulty MapSet: an entry that exists is not overwritten
MapSetKeepFirst(map, scope, name, value_node) ==
  IF DictHas(DictGet(map, scope, <<>>), name) THEN map
  ELSE DictSet(map, scope, DictSet(DictGet(map, scope, <<>>), name, value_node))

\* self.assignment_map[scope][target_name] = value_node, on a defaultdict(dict)
MapSet(map, scope, name, value_node) ==
  DictSet(map, scope, DictSet(DictGet(map, scope, <<>>), name, value_node))

\* the body of the loop of visit_Assign, for the pairs from index i on
RECURSIVE RecordPairs(_, _, _, _)
RecordPairs(c, scope, pairs, i) ==
  IF i > Len(pairs) THEN c
  ELSE LET target_name == TargetToName(pairs[i][1])
           value_node == pairs[i][2]
       IN IF target_name = VNone THEN RecordPairs(c, scope, pairs, i + 1)
          ELSE RecordPairs(
                 [c EXCEPT !.assignment_map = MapSet(@, scope, target_name.s, value_node),
                           !.records = Append(@, Record(scope, target_name.s, value_node,
                                                        ToSource(value_node)))],
                 scope, pairs, i + 1)

\* visit_Assign(node) on the collector c
CollectorVisitAssign(c, node) ==
  RecordPairs(c, c.scope_stack[Len(c.scope_stack)], AssignmentPairs(node.targets, node.value), 1)

\* the statements among a node's children, in the order generic_visit visits them
ChildStatements(node) ==
  IF node.k \in {"If", "While"} THEN node.body \o node.orelse
  ELSE IF node.k = "AsyncFunctionDef" THEN node.body
  ELSE <<>>

VisitItems(stmts) == [i \in 1..Len(stmts) |-> [op |-> "visit", node |-> stmts[i]]]

(***************************************************************************)
(* DataFlowAnalyzer: the helpers of generate_flow.                         *)
(***************************************************************************)
NoNode == [k |-> "None"]

\* _expression_contains_name(node, target): some node of ast.walk(node) is Name(target)
RECURSIVE ExpressionContainsName(_, _)
ExpressionContainsName(node, target) ==
  CASE node.k = "Name" -> node.id = target
    [] node.k = "UnaryOp" -> ExpressionContainsName(node.operand, target)
    [] node.k = "BinOp" ->
         ExpressionContainsName(node.left, target) \/ ExpressionContainsName(node.right, target)
    [] node.k = "Compare" ->
         \/ ExpressionContainsName(node.left, target)
         \/ \E i \in 1..Len(node.comparators) : ExpressionContainsName(node.comparators[i], target)
    [] node.k = "Tuple" -> \E i \in 1..Len(node.elts) : ExpressionContainsName(node.elts[i], target)
    [] node.k = "Call" ->
         \/ ExpressionContainsName(node.func, target)
         \/ \E i \in 1..Len(node.args) : ExpressionContainsName(node.args[i], target)
    [] node.k = "Attribute" -> ExpressionContainsName(node.value, target)
    [] OTHER -> FALSE

IsFunctionDefNamed(node, name) == node.k = "FunctionDef" /\ node.name = name

\* _get_function_def(name) on the tree
GetFunctionDef(body, name) ==
  IF \E i \in 1..Len(body) : IsFunctionDefNamed(body[i], name)
  THEN body[CHOOSE i \in 1..Len(body) :
              /\ IsFunctionDefNamed(body[i], name)
              /\ \A j \in 1..(i - 1) : ~IsFunctionDefNamed(body[j], name)]
  ELSE NoNode

IsCallAssign(node, func_name) ==
  /\ node.k = "Assign"
  /\ node.value.k = "Call"
  /\ node.value.func.k = "Name"
  /\ node.value.func.id = func_name

\* a faulty FindInNode: the else branch of an If node is searched as well
FindInNodeElse(node, func_name) ==
  IF IsCallAssign(node, func_name) THEN node
  ELSE IF node.k = "If"
          /\ \E i \in 1..Len(node.body \o node.orelse) :
               IsCallAssign((node.body \o node.orelse)[i], func_name)
    THEN (node.body \o node.orelse)[
           CHOOSE i \in 1..Len(node.body \o node.orelse) :
             /\ IsCallAssign((node.body \o node.orelse)[i], func_name)
             /\ \A j \in 1..(i - 1) : ~IsCallAssign((node.body \o node.orelse)[j], func_name)]
  ELSE NoNode

\* what one iteration of the loop of _find_function_call_assignment returns for node:
\* the node, a statement of the body of an If node, or NoNode to go on
FindInNode(node, func_name) ==
  IF IsCallAssign(node, func_name) THEN node
  ELSE IF node.k = "If" /\ \E i \in 1..Len(node.body) : IsCallAssign(node.body[i], func_name)
    THEN node.body[CHOOSE i \in 1..Len(node.body) :
                     /\ IsCallAssign(node.body[i], func_name)
                     /\ \A j \in 1..(i - 1) : ~IsCallAssign(node.body[j], func_name)]
  ELSE NoNode

\* a faulty _find_function_call_assignment: the last call assignment wins
FindFunctionCallAssignmentLast(body, func_name) ==
  IF \E i \in 1..Len(body) : FindInNode(body[i], func_name) # NoNode
  THEN FindInNode(body[CHOOSE i \in 1..Len(body) :
                         /\ FindInNode(body[i], func_name) # NoNode
                         /\ \A j \in (i + 1)..Len(body) : FindInNode(body[j], func_name) = NoNode],
                  func_name)
  ELSE NoNode

\* _find_function_call_assignment(func_name) on the tree
FindFunctionCallAssignment(body, func_name) ==
  IF \E i \in 1..Len(body) : FindInNode(body[i], func_name) # NoNode
  THEN FindInNode(body[CHOOSE i \in 1..Len(body) :
                         /\ FindInNode(body[i], func_name) # NoNode
                         /\ \A j \in 1..(i - 1) : FindInNode(body[j], func_name) = NoNode],
                  func_name)
  ELSE NoNode

\* one evaluation the trace made: where, of what, in which environment, with what outcome
Eval(site, node, env, res) == [site |-> site, node |-> node, env |-> env, res |-> res]

\* the loop of lines 56-60: the module environment of the bindings from index i on,
\* or the exception that _evaluate_literal raised and the except clause did not catch
RECURSIVE BuildModuleEnv(_, _, _)
BuildModuleEnv(module_assigns, env, i) ==
  IF i > Len(module_assigns) THEN Ok(VNone) @@ [env |-> env]
  ELSE LET lit == EvaluateLiteral(module_assigns[i][2])
       IN IF lit.ok
          THEN BuildModuleEnv(module_assigns, DictSet(env, module_assigns[i][1], lit.v), i + 1)
          ELSE IF lit.err = "ValueError"
          THEN BuildModuleEnv(module_assigns, env, i + 1)
          ELSE lit @@ [env |-> env]

\* a faulty EvaluateArgs: the arguments go through the literal-only evaluator
RECURSIVE EvaluateArgsLiteral(_, _, _)
EvaluateArgsLiteral(args, env, i) ==
  IF i > Len(args) THEN [res |-> Ok(VNone), values |-> <<>>, evals |-> <<>>]
  ELSE LET first == EvaluateLiteral(args[i])
           ev == Eval("arg", args[i], env, first)
       IN IF ~first.ok THEN [res |-> first, values |-> <<>>, evals |-> <<ev>>]
          ELSE LET rest == EvaluateArgsLiteral(args, env, i + 1)
               IN [res |-> rest.res, values |-> <<first.v>> \o rest.values,
                   evals |-> <<ev>> \o rest.evals]

\* the list comprehension of lines 75-77: the argument values, or the first exception
RECURSIVE EvaluateArgs(_, _, _)
EvaluateArgs(args, env, i) ==
  IF i > Len(args) THEN [res |-> Ok(VNone), values |-> <<>>, evals |-> <<>>]
  ELSE LET first == EvaluateExpression(args[i], env)
           ev == Eval("arg", args[i], env, first)
       IN IF ~first.ok THEN [res |-> first, values |-> <<>>, evals |-> <<ev>>]
          ELSE LET rest == EvaluateArgs(args, env, i + 1)
               IN [res |-> rest.res, values |-> <<first.v>> \o rest.values,
                   evals |-> <<ev>> \o rest.evals]

\* env[name] = value for every name of target_names that is not None
RECURSIVE BindTargets(_, _, _)
BindTargets(env, target_names, value) ==
  IF target_names = <<>> THEN env
  ELSE BindTargets(IF Head(target_names) # VNone
                   THEN DictSet(env, Head(target_names).s, value)
                   ELSE env,
                   Tail(target_names), value)

\* the names of the targets of an Assign node (line 173)
TargetNames(node) == [i \in 1..Len(node.targets) |-> TargetToName(node.targets[i])]

\* lines 175-180 of _handle_assignment, value being the evaluated node.value
AssignmentResult(node, env, value) ==
  IF ~value.ok THEN [res |-> value, env |-> env]
  ELSE [res |-> IF /\ \E i \in 1..Len(node.targets) : TargetNames(node)[i] = VStr("res")
                   /\ ExpressionContainsName(node.value, "v2")
                THEN value ELSE Ok(VNone),
        env |-> BindTargets(env, TargetNames(node), value.v)]

\* _handle_assignment(node, env): the returned value (None: go on) or the exception,
\* and the environment it leaves
HandleAssignment(node, env) ==
  AssignmentResult(node, env, EvaluateExpression(node.value, env))

\* What handling one statement of a statement list does to the walk of
\* _evaluate_res_assignment: kind "return" (the walk returns res.v), "raise" (res is the
\* exception) or "next" (the loop goes on).
Step(kind, res, env, made) == [kind |-> kind, res |-> res, env |-> env, evals |-> made]

ReturnStep(stmt, env, value) ==
  Step(IF value.ok THEN "return" ELSE "raise", value, env,
       <<Eval("return", stmt.value, env, value)>>)

\* a faulty WalkReturn: a bare Return does not end the walk
WalkReturnGoesOn(stmt, env) ==
  IF stmt.hasValue
  THEN ReturnStep(stmt, env, EvaluateExpression(stmt.value, env))
  ELSE Step("next", Ok(VNone), env, <<>>)

\* a Return statement (lines 160-163 and 164-167)
WalkReturn(stmt, env) ==
  IF stmt.hasValue
  THEN ReturnStep(stmt, env, EvaluateExpression(stmt.value, env))
  ELSE Step("return", Ok(VNone), env, <<>>)

AssignStep(stmt, env, h) ==
  Step(IF ~h.res.ok THEN "raise" ELSE IF h.res.v # VNone THEN "return" ELSE "next",
       h.res, h.env, <<Eval("assign", stmt.value, env, EvaluateExpression(stmt.value, env))>>)

\* an Assign statement (lines 145-148 and 156-159)
WalkAssign(stmt, env) == AssignStep(stmt, env, HandleAssignment(stmt, env))

\* one statement of the inner loop (lines 156-163)
WalkInner(inner, env) ==
  IF inner.k = "Assign" THEN WalkAssign(inner, env)
  ELSE IF inner.k = "Return" THEN WalkReturn(inner, env)
  ELSE Step("next", Ok(VNone), env, <<>>)

Then(one, rest) == Step(rest.kind, rest.res, rest.env, one.evals \o rest.evals)

\* the inner loop of lines 155-163 over the statements of the taken branch
RECURSIVE WalkBranch(_, _)
RECURSIVE WalkBranchAfter(_, _)
WalkBranch(branch, env) ==
  IF branch = <<>> THEN Step("next", Ok(VNone), env, <<>>)
  ELSE WalkBranchAfter(Tail(branch), WalkInner(Head(branch), env))

WalkBranchAfter(rest, one) ==
  IF one.kind # "next" THEN one ELSE Then(one, WalkBranch(rest, one.env))

\* a faulty TestStep: the branch the test does not select is evaluated first
TestStepBothAfter(stmt, env, test, other) ==
  IF other.kind = "raise"
  THEN Step("raise", other.res, env, <<Eval("test", stmt.test, env, test)>> \o other.evals)
  ELSE Then(Step("next", test, env, <<Eval("test", stmt.test, env, test)>> \o other.evals),
            WalkBranch(IF Truthy(test.v) THEN stmt.body ELSE stmt.orelse, env))

TestStepBoth(stmt, env, test) ==
  IF ~test.ok THEN Step("raise", test, env, <<Eval("test", stmt.test, env, test)>>)
  ELSE TestStepBothAfter(stmt, env, test,
                         WalkBranch(IF Truthy(test.v) THEN stmt.orelse ELSE stmt.body, env))

\* a faulty TestStep: the branch the test does not select is walked
TestStepSwapped(stmt, env, test) ==
  IF ~test.ok THEN Step("raise", test, env, <<Eval("test", stmt.test, env, test)>>)
  ELSE Then(Step("next", test, env, <<Eval("test", stmt.test, env, test)>>),
            WalkBranch(IF Truthy(test.v) THEN stmt.orelse ELSE stmt.body, env))

\* lines 150-159 of an If statement, test being the evaluated stmt.test
TestStep(stmt, env, test) ==
  IF ~test.ok THEN Step("raise", test, env, <<Eval("test", stmt.test, env, test)>>)
  ELSE Then(Step("next", test, env, <<Eval("test", stmt.test, env, test)>>),
            WalkBranch(IF Truthy(test.v) THEN stmt.body ELSE stmt.orelse, env))

\* an If statement (lines 149-163)
WalkIf(stmt, env) == TestStep(stmt, env, EvaluateExpression(stmt.test, env))

\* one iteration of the loop of _evaluate_res_assignment (lines 144-167)
WalkStatement(stmt, env) ==
  IF stmt.k = "Assign" THEN WalkAssign(stmt, env)
  ELSE IF stmt.k = "If" THEN WalkIf(stmt, env)
  ELSE IF stmt.k = "Return" THEN WalkReturn(stmt, env)
  ELSE Step("next", Ok(VNone), env, <<>>)

\* a faulty FlowText: the waypoints joined by another separator
FlowTextComma(nodes) == Join([i \in 1..Len(nodes) |-> PyStr(nodes[i])], ", ")

\* "->".join(str(node) for node in flow_nodes)
FlowText(nodes) == Join([i \in 1..Len(nodes) |-> PyStr(nodes[i])], "->")

\* run_pipeline ends: it returns res.v or raises res
Finish(res) ==
  /\ pc' = "done"
  /\ history' = Append(history, [result |-> res,
                                  assignment_map |-> assignment_map,
                                  assignment_records |-> assignment_records])

(***************************************************************************)
(* run_pipeline, step by step.                                             *)
(***************************************************************************)
\* run_pipeline is called; parse_assignments makes its collector and starts the visit
RunPipeline ==
  /\ pc \in {"idle", "done"}
  /\ run < MaxRuns
  /\ run' = run + 1
  /\ collector' = NewCollector
  /\ todo' = VisitItems(tree)
  /\ pc' = "collect"
  /\ module_env' = <<>> /\ val2_value' = VNone /\ flow_nodes' = <<>>
  /\ func_def' = NoNode /\ call_assign' = NoNode
  /\ param_env' = <<>> /\ local_env' = <<>> /\ walk_i' = 0 /\ res_value' = VNone
  /\ evals' = <<>>
  /\ UNCHANGED <<reqVars, textVars, tree, analyzerVars, history>>

\* visit_FunctionDef: the scope is pushed, the body is visited, then the scope is popped
VisitFunctionDef ==
  /\ pc = "collect" /\ todo # <<>>
  /\ Head(todo).op = "visit" /\ Head(todo).node.k = "FunctionDef"
  /\ collector' = [collector EXCEPT !.scope_stack = Append(@, Head(todo).node.name)]
  /\ todo' = VisitItems(Head(todo).node.body) \o <<[op |-> "leave"]>> \o Tail(todo)
  /\ UNCHANGED <<reqVars, textVars, tree, analyzerVars, pc, run, flowVars, evals, history>>

\* the end of visit_FunctionDef: self.scope_stack.pop()
LeaveFunctionDef ==
  /\ pc = "collect" /\ todo # <<>>
  /\ Head(todo).op = "leave"
  /\ collector' = [collector EXCEPT !.scope_stack = SubSeq(@, 1, Len(@) - 1)]
  /\ todo' = Tail(todo)
  /\ UNCHANGED <<reqVars, textVars, tree, analyzerVars, pc, run, flowVars, evals, history>>

\* visit_Assign
VisitAssign ==
  /\ pc = "collect" /\ todo # <<>>
  /\ Head(todo).op = "visit" /\ Head(todo).node.k = "Assign"
  /\ collector' = CollectorVisitAssign(collector, Head(todo).node)
  /\ todo' = Tail(todo)
  /\ UNCHANGED <<reqVars, textVars, tree, analyzerVars, pc, run, flowVars, evals, history>>

\* generic_visit of any other statement: its child statements are visited in order
GenericVisit ==
  /\ pc = "collect" /\ todo # <<>>
  /\ Head(todo).op = "visit" /\ Head(todo).node.k \notin {"FunctionDef", "Assign"}
  /\ todo' = VisitItems(ChildStatements(Head(todo).node)) \o Tail(todo)
  /\ UNCHANGED <<reqVars, textVars, tree, analyzerVars, collector, pc, run, flowVars, evals, history>>

\* the end of parse_assignments (lines 31-32)
ParseDone ==
  /\ pc = "collect" /\ todo = <<>>
  /\ assignment_map' = collector.assignment_map
  /\ assignment_records' = collector.records
  /\ pc' = "flow"
  /\ UNCHANGED <<reqVars, textVars, tree, collectVars, run, flowVars, evals, history>>

\* generate_flow, lines 54-60
ModuleEnv ==
  /\ pc = "flow"
  /\ LET built == BuildModuleEnv(DictGet(assignment_map, "module", <<>>), <<>>, 1)
     IN IF built.ok
        THEN module_env' = built.env /\ pc' = "val2" /\ UNCHANGED history
        ELSE Finish(Raise(built.err, built.msg)) /\ UNCHANGED module_env
  /\ UNCHANGED <<reqVars, textVars, tree, analyzerVars, collectVars, run, val2_value, flow_nodes, func_def,
                 call_assign, param_env, local_env, walk_i, res_value, evals>>

\* generate_flow, lines 62-66
ResolveVal2 ==
  /\ pc = "val2"
  /\ val2_value' = DictGet(module_env, "val2", VNone)
  /\ IF val2_value' = VNone
     THEN Finish(Raise("ValueError", "Could not resolve the initial value for val2"))
          /\ UNCHANGED flow_nodes
     ELSE flow_nodes' = <<val2_value', VStr("val2")>> /\ pc' = "func" /\ UNCHANGED history
  /\ UNCHANGED <<reqVars, textVars, tree, analyzerVars, collectVars, run, module_env, func_def, call_assign,
                 param_env, local_env, walk_i, res_value, evals>>

\* generate_flow, lines 67-69
FindFunction ==
  /\ pc = "func"
  /\ func_def' = GetFunctionDef(tree, "simpleCalculator")
  /\ IF func_def' = NoNode
     THEN Finish(Raise("ValueError", "Function simpleCalculator not found"))
     ELSE pc' = "call" /\ UNCHANGED history
  /\ UNCHANGED <<reqVars, textVars, tree, analyzerVars, collectVars, run, module_env, val2_value, flow_nodes,
                 call_assign, param_env, local_env, walk_i, res_value, evals>>

\* generate_flow, lines 71-73
FindCall ==
  /\ pc = "call"
  /\ call_assign' = FindFunctionCallAssignment(tree, "simpleCalculator")
  /\ IF call_assign' = NoNode
     THEN Finish(Raise("ValueError", "Call to simpleCalculator not found"))
     ELSE pc' = "args" /\ UNCHANGED history
  /\ UNCHANGED <<reqVars, textVars, tree, analyzerVars, collectVars, run, module_env, val2_value, flow_nodes,
                 func_def, param_env, local_env, walk_i, res_value, evals>>

\* the waypoints after lines 81-82
WithParameter(nodes, env, watched) ==
  IF PyEq(DictGet(env, "v2", VNone), watched) THEN Append(nodes, VStr("v2")) ELSE nodes

\* generate_flow, lines 75-84
BindArguments ==
  /\ pc = "args"
  /\ LET args == EvaluateArgs(call_assign.value.args, module_env, 1)
     IN /\ evals' = evals \o args.evals
        /\ IF ~args.res.ok
           THEN Finish(args.res) /\ UNCHANGED <<param_env, flow_nodes, local_env, walk_i>>
           ELSE /\ param_env' = DictZip(func_def.args, args.values)
                /\ flow_nodes' = WithParameter(flow_nodes, param_env', val2_value)
                /\ local_env' = param_env'
                /\ walk_i' = 1
                /\ pc' = "walk"
                /\ UNCHANGED history
  /\ UNCHANGED <<reqVars, textVars, tree, analyzerVars, collectVars, run, module_env, val2_value, func_def,
                 call_assign, res_value>>

\* what the outcome of one iteration does to the state
ApplyStep(step) ==
  /\ evals' = evals \o step.evals
  /\ local_env' = step.env
  /\ CASE step.kind = "raise" -> Finish(step.res) /\ UNCHANGED <<walk_i, res_value>>
       [] step.kind = "return" ->
            res_value' = step.res.v /\ pc' = "res" /\ UNCHANGED <<walk_i, history>>
       [] step.kind = "next" ->
            walk_i' = walk_i + 1 /\ UNCHANGED <<pc, res_value, history>>

\* a faulty WalkStep: the body is executed on the parameter environment itself
WalkStepShared ==
  /\ pc = "walk" /\ walk_i <= Len(func_def.body)
  /\ ApplyStep(WalkStatement(func_def.body[walk_i], local_env))
  /\ param_env' = local_env'
  /\ UNCHANGED <<reqVars, textVars, tree, analyzerVars, collectVars, run, module_env, val2_value, flow_nodes,
                 func_def, call_assign>>

\* _evaluate_res_assignment: one iteration of the loop over func_def.body
WalkStep ==
  /\ pc = "walk" /\ walk_i <= Len(func_def.body)
  /\ ApplyStep(WalkStatement(func_def.body[walk_i], local_env))
  /\ UNCHANGED <<reqVars, textVars, tree, analyzerVars, collectVars, run, module_env, val2_value, flow_nodes,
                 func_def, call_assign, param_env>>

\* _evaluate_res_assignment: the loop ends, line 168
WalkEnd ==
  /\ pc = "walk" /\ walk_i > Len(func_def.body)
  /\ res_value' = VNone
  /\ pc' = "res"
  /\ UNCHANGED <<reqVars, textVars, tree, analyzerVars, collectVars, run, module_env, val2_value, flow_nodes,
                 func_def, call_assign, param_env, local_env, walk_i, evals, history>>

\* a faulty Emit: without a result the chain found so far is returned
EmitPartial(nodes, value) ==
  IF value = VNone
  THEN [nodes |-> nodes, res |-> Ok(VStr(FlowText(nodes)))]
  ELSE [nodes |-> nodes \o <<VStr("res"), value>>,
        res |-> Ok(VStr(FlowText(nodes \o <<VStr("res"), value>>)))]

\* a faulty Emit: the result is appended without the waypoint "res"
EmitUnnamed(nodes, value) ==
  IF value = VNone
  THEN [nodes |-> nodes,
        res |-> Raise("ValueError", "Could not resolve the value assigned to res")]
  ELSE [nodes |-> Append(nodes, value), res |-> Ok(VStr(FlowText(Append(nodes, value))))]

\* lines 86-92: the waypoints generate_flow ends with, and what it returns or raises
Emit(nodes, value) ==
  IF value = VNone
  THEN [nodes |-> nodes,
        res |-> Raise("ValueError", "Could not resolve the value assigned to res")]
  ELSE [nodes |-> nodes \o <<VStr("res"), value>>,
        res |-> Ok(VStr(FlowText(nodes \o <<VStr("res"), value>>)))]

\* generate_flow, lines 86-92, and the return of run_pipeline
EmitFlow ==
  /\ pc = "res"
  /\ flow_nodes' = Emit(flow_nodes, res_value).nodes
  /\ Finish(Emit(flow_nodes, res_value).res)
  /\ UNCHANGED <<reqVars, textVars, tree, analyzerVars, collectVars, run, module_env, val2_value, func_def,
                 call_assign, param_env, local_env, walk_i, res_value, evals>>

(***************************************************************************)
(* The inputs: the source files the analyzer is constructed on.            *)
(***************************************************************************)
AssignName(name, value) == Assign(<<Name(name)>>, value)
Eq(left, right) == Compare(left, <<"Eq">>, <<right>>)

\* the integer literals of the programs
Literals == (0 - MaxInt)..MaxInt \cup {5}

\* the module-level statements that come before the function definition
Bindings ==
  {<<>>}
  \cup {<<AssignName("val2", Lit(c))>> : c \in Literals}
  \cup {<<AssignName("val2", Lit(c)), AssignName("x", BinOp(Name("val2"), "Add", Num(1)))>> :
          c \in Literals}
  \cup {<<AssignName("val2", Constant(VNone))>>,
        <<AssignName("val2", Constant(VStr("a")))>>,
        <<AssignName("val2", Constant(VBool(TRUE)))>>,
        <<AssignName("val2", Tuple(<<Num(1), Num(2)>>))>>,
        <<AssignName("val2", UnaryOp("USub", Constant(VStr("a"))))>>,
        <<AssignName("val1", Num(1)), AssignName("val2", BinOp(Name("val1"), "Add", Num(1)))>>,
        <<AssignName("val1", BinOp(Num(1), "Add", Num(1)))>>,
        <<Assign(<<Tuple(<<Name("val2"), Name("x")>>)>>, Tuple(<<Num(1), Num(2)>>))>>,
        <<Assign(<<Name("val1"), Name("val2")>>, Num(2))>>,
        <<Assign(<<Attribute(Name("cfg"), "val2")>>, Num(1)), AssignName("val2", Num(1))>>,
        <<If(Eq(Num(1), Num(1)), <<AssignName("val2", Num(1))>>, <<AssignName("val2", Num(2))>>)>>}

ResMinusOne == AssignName("res", BinOp(Name("v2"), "Sub", Num(1)))
ResPlusOne == AssignName("res", BinOp(Name("v2"), "Add", Num(1)))
ReturnRes == Return(Name("res"))

\* the bodies of the callee
Bodies ==
  {<<ResMinusOne, ReturnRes>>,
   <<AssignName("t", Num(1)), AssignName("t", Num(2)),
     AssignName("res", BinOp(Name("v2"), "Sub", Name("t"))), ReturnRes>>,
   <<AssignName("tmp", BinOp(Name("v2"), "Add", Num(1))),
     AssignName("res", BinOp(Name("tmp"), "Sub", Num(1))), ReturnRes>>,
   <<AssignName("tmp", BinOp(Name("v2"), "Add", Num(1))),
     AssignName("res", BinOp(Name("tmp"), "Sub", Num(1)))>>,
   <<AssignName("res", BinOp(Name("v2"), "Mult", Num(2))), ReturnRes>>,
   <<AssignName("res", BinOp(Name("y"), "Mult", Num(2))), ReturnRes>>,
   <<AssignName("res", BinOp(Name("v2"), "Sub", Name("y"))), ReturnRes>>,
   <<AssignName("res", UnaryOp("Not", Name("v2"))), ReturnRes>>,
   <<AssignName("res", UnaryOp("USub", Name("v2"))), ReturnRes>>,
   <<AssignName("res", Eq(Name("v2"), Num(1))), ReturnRes>>,
   <<AssignName("res", Name("v2")), ReturnRes>>,
   <<AssignName("res", Compare(Name("v2"), <<"Eq", "Eq">>,
                               <<Num(1), BinOp(Name("v2"), "Mult", Num(2))>>)), ReturnRes>>,
   <<AssignName("res", Compare(Name("v2"), <<"Lt">>, <<Num(1)>>)), ReturnRes>>,
   <<AssignName("res", Compare(Name("v2"), <<"Eq", "Eq">>, <<Num(1), Num(2)>>)), ReturnRes>>,
   <<If(Eq(Name("v2"), Num(1)), <<If(Eq(Name("v2"), Num(1)), <<ResPlusOne>>, <<>>)>>, <<>>),
     ResMinusOne, ReturnRes>>,
   <<If(Eq(Name("v2"), Num(1)),
        <<If(Eq(Name("v2"), Num(1)), <<Return(BinOp(Name("v2"), "Add", Num(1)))>>, <<>>)>>,
        <<ResMinusOne>>),
     ReturnRes>>,
   <<Return(BinOp(Name("v2"), "Add", Num(1)))>>,
   <<Return(BinOp(Name("v2"), "Mult", Num(2)))>>,
   <<ReturnBare, ResMinusOne>>,
   <<Expr(Name("v2"))>>,
   <<If(Eq(BinOp(Name("v2"), "Mult", Num(2)), Num(2)), <<ResPlusOne>>, <<ResMinusOne>>), ReturnRes>>,
   <<FunctionDef("inner", <<"w">>, <<AssignName("res", Num(0))>>), ResMinusOne, ReturnRes>>,
   <<While(Name("v2"), <<AssignName("res", Num(0))>>, <<>>), ResMinusOne, ReturnRes>>}
  \cup {<<If(Eq(Name("v2"), Lit(c)),
             <<AssignName("t", Num(1)), ResPlusOne>>,
             <<AssignName("e", Num(2)), ResMinusOne>>), ReturnRes>> : c \in Literals}
  \cup {<<If(Compare(Name("v2"), <<"NotEq">>, <<Lit(c)>>),
             <<AssignName("t", Num(1)), AssignName("res", BinOp(Name("v2"), "Sub", Name("t")))>>,
             <<AssignName("e", BinOp(Name("v2"), "Mult", Num(2))),
               AssignName("res", BinOp(Name("v2"), "Add", Name("e")))>>), ReturnRes>> :
          c \in {0, 1}}

\* the function definitions of the module (none, or one)
Functions ==
  {<<>>}
  \cup {<<FunctionDef("simpleCalculator", <<"v2">>, body)>> : body \in Bodies}
  \cup {<<FunctionDef("calculator", <<"v2">>, <<ResMinusOne, ReturnRes>>)>>,
        <<FunctionDef("simpleCalculator", <<"v1", "v2">>, <<ResMinusOne, ReturnRes>>)>>,
        <<FunctionDef("simpleCalculator", <<"v">>, <<ResMinusOne, ReturnRes>>)>>}

CallOf(func, args) == AssignName("out", Call(Name(func), args))

\* the module-level statements that come after the function definition
CallSites ==
  {<<>>,
   <<CallOf("simpleCalculator", <<Name("val2")>>)>>,
   <<CallOf("simpleCalculator", <<BinOp(Name("val2"), "Add", Num(1))>>)>>,
   <<CallOf("simpleCalculator", <<BinOp(Name("val2"), "Sub", Name("val2"))>>)>>,
   <<CallOf("simpleCalculator", <<Name("x")>>)>>,
   <<CallOf("simpleCalculator", <<BinOp(Name("val2"), "Mult", Num(2))>>)>>,
   <<CallOf("simpleCalculator", <<UnaryOp("UAdd", Name("val2"))>>)>>,
   <<CallOf("simpleCalculator", <<Constant(VNone)>>)>>,
   <<CallOf("simpleCalculator", <<Num(1), Name("val2")>>)>>,
   <<CallOf("calculator", <<Name("val2")>>)>>,
   <<Expr(Call(Name("simpleCalculator"), <<Name("val2")>>))>>,
   <<If(Eq(Name("val2"), Num(0)), <<CallOf("simpleCalculator", <<Name("val2")>>)>>, <<>>)>>,
   <<If(Eq(Name("val2"), Num(0)), <<AssignName("z", Num(1))>>,
        <<CallOf("simpleCalculator", <<Name("val2")>>)>>)>>,
   <<CallOf("simpleCalculator", <<Num(1)>>), CallOf("simpleCalculator", <<Name("val2")>>)>>,
   <<CallOf("simpleCalculator", <<Name("val2"), Num(0)>>)>>,
   <<CallOf("simpleCalculator", <<Name("val2")>>),
     AssignName("z", Call(Name("simpleCalculator"), <<Num(1)>>))>>,
   <<CallOf("simpleCalculator", <<Name("val2")>>),
     AssignName("val2", Call(Name("simpleCalculator"), <<Num(1)>>))>>}

\* the files of the trace scenarios
FlowPrograms == {b \o f \o c : b \in Bindings, f \in Functions, c \in CallSites}

\* the module-level assignments the collector family is made of
PoolStatements ==
  {AssignName("val2", Num(1)), AssignName("val2", Num(2)), AssignName("x", Name("val2")),
   Assign(<<Tuple(<<Name("x"), Name("val2")>>)>>, Tuple(<<Num(0), Num(1)>>)),
   Assign(<<Tuple(<<Name("x"), Name("val2")>>)>>, Tuple(<<Num(0), Num(1), Num(2)>>)),
   Assign(<<Tuple(<<Attribute(Name("cfg"), "val2"), Name("x")>>)>>, Tuple(<<Num(0), Num(1)>>)),
   Assign(<<Name("val2"), Tuple(<<Name("x"), Name("y")>>)>>, Tuple(<<Num(1), Num(2)>>)),
   Assign(<<Tuple(<<Name("x"), Name("val2")>>)>>, Name("val2"))}

StatementSeqs == UNION {[1..n -> PoolStatements] : n \in 0..MaxStmts}

\* the files of reassignments: module-level statement sequences before the calculator
CollectorPrograms ==
  {stmts \o <<FunctionDef("simpleCalculator", <<"v2">>, <<ResMinusOne, ResPlusOne, ReturnRes>>),
              CallOf("simpleCalculator", <<Name("val2")>>)>> : stmts \in StatementSeqs}

\* callee bodies with statements after a Return, rebinding and unexecuted statements
WalkBodies ==
  {<<Return(BinOp(Name("v2"), "Add", Num(1))), ResMinusOne>>,
   <<If(Eq(Name("v2"), Num(1)),
        <<Return(BinOp(Name("v2"), "Add", Num(1))), ResMinusOne>>,
        <<ReturnBare, ResPlusOne>>),
     ResMinusOne, ReturnRes>>,
   <<AssignName("res", Name("v2")), Return(Num(1))>>,
   <<AssignName("v2x", Name("v2")), AssignName("res", Name("v2x")),
     Return(BinOp(Name("res"), "Add", Num(1)))>>,
   <<Assign(<<Name("a"), Name("b")>>, Name("v2")),
     Assign(<<Name("t"), Name("res")>>, BinOp(Name("a"), "Add", Name("v2"))), ReturnRes>>,
   <<AssignName("val2", Num(0)), AssignName("v2", BinOp(Name("v2"), "Add", Num(1))),
     ResMinusOne, ReturnRes>>,
   <<ResMinusOne, AssignName("z", BinOp(Name("y"), "Mult", Num(2))), ReturnRes>>,
   <<If(Eq(Name("v2"), Num(1)),
        <<ResPlusOne, AssignName("z", BinOp(Name("y"), "Mult", Num(2)))>>,
        <<AssignName("res", Name("y"))>>),
     ReturnRes>>}

\* call assignments inside compound statements at module level
NestedCallSites ==
  {<<If(Eq(Name("y"), Num(0)), <<CallOf("simpleCalculator", <<Name("val2")>>)>>, <<>>)>>,
   <<If(Eq(Name("val2"), Num(1)), <<AssignName("z", Num(0))>>,
        <<CallOf("simpleCalculator", <<Name("val2")>>)>>)>>,
   <<If(Eq(Name("val2"), Num(1)),
        <<If(Eq(Name("val2"), Num(1)), <<CallOf("simpleCalculator", <<Name("val2")>>)>>, <<>>)>>,
        <<>>)>>,
   <<While(Name("val2"), <<CallOf("simpleCalculator", <<Name("val2")>>)>>, <<>>)>>}

\* the files of the body walk, of nested call sites, of an async function and of a
\* callee with a positional-only parameter
WalkPrograms ==
  {<<AssignName("val2", Num(c)), FunctionDef("simpleCalculator", <<"v2">>, body)>> \o site :
     c \in {1, 2}, body \in WalkBodies,
     site \in {<<CallOf("simpleCalculator", <<Name("val2")>>)>>,
               <<CallOf("simpleCalculator", <<Constant(VNone)>>)>>}}
  \cup {<<AssignName("val2", Num(c)),
          FunctionDef("simpleCalculator", <<"v2">>, <<ResMinusOne, ReturnRes>>)>> \o site :
          c \in {1, 2}, site \in NestedCallSites}
  \cup {<<AssignName("val2", Num(c)),
          [k |-> "AsyncFunctionDef", name |-> "f", args |-> <<>>,
           body |-> <<AssignName("val2", Num(2))>>],
          FunctionDef("simpleCalculator", <<"v2">>, <<ResMinusOne, ReturnRes>>),
          CallOf("simpleCalculator", <<Name("val2")>>)>> : c \in {1, 2}}
  \cup {<<AssignName("val2", Num(c)),
          [k |-> "FunctionDef", name |-> "simpleCalculator", args |-> <<"v2">>,
           body |-> <<ResMinusOne, ReturnRes>>, posonlyargs |-> <<"v1">>],
          CallOf("simpleCalculator", <<Name("val2"), Num(0)>>)>> : c \in {1, 2}}

Programs == FlowPrograms \cup CollectorPrograms \cup WalkPrograms

(***************************************************************************)
(* The specification.                                                      *)
(***************************************************************************)
(***************************************************************************)
(* exercise4: parse_requirements_yaml.  A text is the sequence of its      *)
(* characters; a loaded YAML value is a record with t its type, chars the  *)
(* text of a str, parts the pieces the text of a compact entry was written *)
(* in, items the pairs of a mapping or the entries of a list, in order.    *)
(***************************************************************************)
YStr(chars) == [t |-> "str", chars |-> chars, parts |-> <<chars>>, items |-> <<>>]
YInt == [t |-> "int", chars |-> <<>>, parts |-> <<>>, items |-> <<>>]
YNone == [t |-> "none", chars |-> <<>>, parts |-> <<>>, items |-> <<>>]
YDict(items) == [t |-> "dict", chars |-> <<>>, parts |-> <<>>, items |-> items]
YList(items) == [t |-> "list", chars |-> <<>>, parts |-> <<>>, items |-> items]

RECURSIVE Flatten(_)
Flatten(parts) == IF parts = <<>> THEN <<>> ELSE Head(parts) \o Flatten(Tail(parts))

\* a str entry whose text is the pieces one after the other
YCompact(parts) == [t |-> "str", chars |-> Flatten(parts), parts |-> parts, items |-> <<>>]

ReqOk(d) == [ok |-> TRUE, v |-> d, err |-> "", msg |-> ""]
ReqRaise(err, msg) == [ok |-> FALSE, v |-> <<>>, err |-> err, msg |-> msg]

ALL == <<"A", "L", "L">>
\* the characters \w matches, among those the texts are written with
WordChars == {"A", "L", "R", "X", "1", "2", "a", "b", "c"}
Whitespace == {" "}

\* str.strip()
Strip(chars) ==
  LET kept == {i \in 1..Len(chars) : chars[i] \notin Whitespace}
  IN IF kept = {} THEN <<>>
     ELSE SubSeq(chars, CHOOSE i \in kept : \A j \in kept : i <= j,
                        CHOOSE i \in kept : \A j \in kept : i >= j)

\* the end of the longest run of word characters that starts at p (p - 1 if none)
WordEnd(raw, p) ==
  CHOOSE j \in (p - 1)..Len(raw) :
    /\ \A i \in p..j : raw[i] \in WordChars
    /\ j = Len(raw) \/ raw[j + 1] \notin WordChars

\* the match of (\w+):"([^"]*)" that starts at p, if there is one: \w+ takes the
\* whole run (after a shorter one a word character follows, not the colon) and
\* [^"]* reaches to the next quote
MatchFrom(raw, p, j) ==
  IF /\ j >= p /\ j + 2 <= Len(raw)
     /\ raw[j + 1] = ":" /\ raw[j + 2] = "\""
     /\ \E k \in (j + 3)..Len(raw) : raw[k] = "\""
  THEN LET k == CHOOSE k \in (j + 3)..Len(raw) :
                  raw[k] = "\"" /\ \A i \in (j + 3)..(k - 1) : raw[i] # "\""
       IN [found |-> TRUE, key |-> SubSeq(raw, p, j), value |-> SubSeq(raw, j + 3, k - 1),
           end |-> k]
  ELSE [found |-> FALSE, key |-> <<>>, value |-> <<>>, end |-> p]

MatchAt(raw, p) == MatchFrom(raw, p, WordEnd(raw, p))

\* a faulty TakeRequirement: the ALL entry is kept like any other
TakeRequirementKeepAll(reqs, key, value) == DictSet(reqs, key, Strip(value))

\* the body of both loops: the ALL entry is skipped, any other is stored stripped
TakeRequirement(reqs, key, value) ==
  IF key = ALL THEN reqs ELSE DictSet(reqs, key, Strip(value))

(***************************************************************************)
(* The requirement files.                                                  *)
(***************************************************************************)
Quoted(key, text) == key \o <<":", "\"">> \o text \o <<"\"">>

\* the pieces compact entries are written in: KEY:"text" pairs, a separator, and
\* pieces that are no pair
WrittenPairs ==
  {<<ALL, <<"c">>>>, <<<<"R", "1">>, <<"a", " ">>>>, <<<<"R", "2">>, <<" ", "b">>>>,
   <<<<"R", "1">>, <<"c">>>>, <<<<"X", "A", "L", "L">>, <<" ">>>>}
PairPieces == {Quoted(p[1], p[2]) : p \in WrittenPairs}
Pieces ==
  PairPieces \cup {<<" ">>, <<"R", "2", ":", "\"">>, <<"R", "1", ":">>}

PieceSeqs == UNION {[1..n -> Pieces] : n \in 0..MaxPieces}

ItemKeys == {YStr(ALL), YStr(<<"R", "1">>), YStr(<<"R", "2">>), YInt}
ItemValues == {YStr(<<" ", "a", " ">>), YStr(<<"b">>), YInt}
\* the mappings safe_load makes: no key twice
ItemSeqs ==
  {items \in UNION {[1..n -> ItemKeys \X ItemValues] : n \in 0..MaxItems} :
     \A i, j \in 1..Len(items) : items[i][1] = items[j][1] => i = j}

Entries == {YCompact(parts) : parts \in PieceSeqs} \cup {YDict(items) : items \in ItemSeqs}
           \cup {YInt}

Documents ==
  {YList(<<e>>) : e \in Entries}
  \cup {YList(<<e, YCompact(<<Quoted(<<"R", "2">>, <<"c">>)>>)>>) :
          e \in {YCompact(<<p>>) : p \in PairPieces} \cup {YDict(<<>>)}}
  \cup {YList(<<>>), YNone, YDict(<<>>)}

(***************************************************************************)
(* exercise4: extract_security_clauses and lookup_principle_violations.    *)
(***************************************************************************)
\* str.lower(), on the characters the texts are written with
Lower(chars) ==
  [i \in 1..Len(chars) |->
     CASE chars[i] = "I" -> "i" [] chars[i] = "V" -> "v" [] chars[i] = "X" -> "x"
       [] OTHER -> chars[i]]

\* sub in chars
Contains(chars, sub) ==
  \E p \in 0..(Len(chars) - Len(sub)) : SubSeq(chars, p + 1, p + Len(sub)) = sub

\* any(word.lower() in lowered for word in words)
AnyIn(words, lowered) == \E i \in 1..Len(words) : Contains(lowered, Lower(words[i]))

\* the end of the run of whitespace that starts at p (p - 1 if none)
SpaceEnd(text, p) ==
  CHOOSE j \in (p - 1)..Len(text) :
    /\ \A i \in p..j : text[i] \in Whitespace
    /\ j = Len(text) \/ text[j + 1] \notin Whitespace

\* the end of the match of (?<=[.!?])\s+|;\s+ that starts at p (0 if there is none)
SeparatorEnd(text, p) ==
  IF p > 1 /\ text[p - 1] \in {".", "!", "?"} /\ SpaceEnd(text, p) >= p
  THEN SpaceEnd(text, p)
  ELSE IF text[p] = ";" /\ SpaceEnd(text, p + 1) >= p + 1
  THEN SpaceEnd(text, p + 1)
  ELSE 0

\* pattern.split(text) searched from p on, the running segment having begun at start
RECURSIVE SplitFrom(_, _, _)
SplitFrom(text, p, start) ==
  IF p > Len(text) THEN <<SubSeq(text, start, Len(text))>>
  ELSE IF SeparatorEnd(text, p) = 0 THEN SplitFrom(text, p + 1, start)
  ELSE <<SubSeq(text, start, p - 1)>>
       \o SplitFrom(text, SeparatorEnd(text, p) + 1, SeparatorEnd(text, p) + 1)

NonEmpty(chars) == chars # <<>>

\* split_into_clauses(text), lines 121-128
SplitIntoClauses(text) ==
  IF SelectSeq([i \in 1..Len(SplitFrom(text, 1, 1)) |-> Strip(SplitFrom(text, 1, 1)[i])],
               NonEmpty) = <<>>
  THEN <<Strip(text)>>
  ELSE SelectSeq([i \in 1..Len(SplitFrom(text, 1, 1)) |-> Strip(SplitFrom(text, 1, 1)[i])],
                 NonEmpty)

\* the characters in code point order
CodeOrder == <<" ", "!", ".", ";", "?", "I", "V", "X", "i", "v", "x">>
Code(c) == CHOOSE i \in 1..Len(CodeOrder) : CodeOrder[i] = c

\* a < b for two str
StrLess(a, b) ==
  \E p \in 1..(Len(a) + 1) :
    /\ p <= Len(b)
    /\ \A i \in 1..(p - 1) : i <= Len(b) /\ a[i] = b[i]
    /\ p = Len(a) + 1 \/ Code(a[p]) < Code(b[p])

\* sorted(strs), for a set of str
Sorted(strs) ==
  CHOOSE q \in [1..Cardinality(strs) -> strs] :
    \A i, j \in 1..Cardinality(strs) : i < j => StrLess(q[i], q[j])

\* the members of TERMS (lines 15-66) that the texts of the model can hold
TERMS == {<<"i", "v">>}

(***************************************************************************)
(* The calls of the text functions.                                        *)
(***************************************************************************)
TextPieces == {<<"I", "v">>, <<"x">>, <<".">>, <<"?">>, <<";">>, <<" ">>}
Texts == {Flatten(ps) : ps \in UNION {[1..n -> TextPieces] : n \in 0..MaxWords}}

\* terms: absent, or a list
TermLists == {<<>>, <<<<"I", "V">>>>, <<<<"x">>, <<"v", ".">>>>}

Violation(violation, keywords) == [violation |-> violation, keywords |-> keywords]
PrincipleSets ==
  {<<>>,
   <<<<"P1", <<Violation(<<"x">>, <<<<"I", "V">>, <<"i", "v">>>>),
              Violation(<<" ", "x", " ">>, <<<<"i", "v">>>>),
              Violation(<<"i">>, <<<<"x", ".">>>>)>>>>,
     <<"P2", <<Violation(<<"v">>, <<<<"?">>, <<"x", ";">>>>)>>>>,
     <<"P3", <<>>>>>>,
   <<<<"P2", <<Violation(<<"v", " ">>, <<<<"X">>>>), Violation(<<"I">>, <<<<";", " ">>>>),
              Violation(<<"i">>, <<<<"x">>>>)>>>>>>}

Calls ==
  {[fn |-> "extract_security_clauses", text |-> t, has_terms |-> FALSE, terms |-> <<>>,
    principles |-> <<>>] : t \in {tx \in Texts : Len(tx) <= 3}}
  \cup {[fn |-> "extract_security_clauses", text |-> t, has_terms |-> TRUE, terms |-> ts,
         principles |-> <<>>] : t \in Texts, ts \in TermLists}
  \cup {[fn |-> "lookup_principle_violations", text |-> t, has_terms |-> FALSE,
         terms |-> <<>>, principles |-> ps] : t \in Texts, ps \in PrincipleSets}

\* no text function is called
TextIdle ==
  /\ call = [fn |-> "", text |-> <<>>, has_terms |-> FALSE, terms |-> <<>>, principles |-> <<>>]
  /\ txt_pc = "idle" /\ segments = <<>> /\ seg_i = 0 /\ clauses = <<>> /\ found = <<>>
  /\ prin_i = 0 /\ ent_i = 0 /\ txt_result = ReqRaise("", "")

vars == <<tree, assignment_map, assignment_records, collector, todo, pc, run,
          module_env, val2_value, flow_nodes, func_def, call_assign,
          param_env, local_env, walk_i, res_value, evals, history>>

\* DataFlowAnalyzer.__init__ on one of the files
Init ==
  /\ tree \in Programs
  /\ assignment_map = <<>>
  /\ assignment_records = <<>>
  /\ collector = NewCollector
  /\ todo = <<>>
  /\ pc = "idle"
  /\ run = 0
  /\ module_env = <<>> /\ val2_value = VNone /\ flow_nodes = <<>>
  /\ func_def = NoNode /\ call_assign = NoNode
  /\ param_env = <<>> /\ local_env = <<>> /\ walk_i = 0 /\ res_value = VNone
  /\ evals = <<>>
  /\ history = <<>>
  /\ raw_data = YNone /\ entry = YNone /\ raw_pos = 0 /\ matches = <<>> /\ item_i = 0
  /\ requirements = <<>> /\ req_pc = "idle" /\ req_result = ReqRaise("", "")
  /\ TextIdle

Next ==
  \/ RunPipeline
  \/ VisitFunctionDef
  \/ LeaveFunctionDef
  \/ VisitAssign
  \/ GenericVisit
  \/ ParseDone
  \/ ModuleEnv
  \/ ResolveVal2
  \/ FindFunction
  \/ FindCall
  \/ BindArguments
  \/ WalkStep
  \/ WalkEnd
  \/ EmitFlow

Spec == Init /\ [][Next]_<<vars, reqVars, textVars>>

ReqFinish(res) == req_result' = res /\ req_pc' = "done"

\* lines 92-107 up to the loops: the checks of raw_data and the kind of its first entry
ReadEntry ==
  /\ req_pc = "start"
  /\ IF raw_data.t # "list" \/ raw_data.items = <<>>
     THEN /\ ReqFinish(ReqRaise("ValueError",
                                "YAML content must be a non-empty list of mappings."))
          /\ UNCHANGED <<entry, raw_pos, item_i>>
     ELSE /\ entry' = raw_data.items[1]
          /\ IF entry'.t = "str"
             THEN req_pc' = "findall" /\ raw_pos' = 1 /\ UNCHANGED <<item_i, req_result>>
             ELSE IF entry'.t = "dict"
             THEN req_pc' = "items" /\ item_i' = 1 /\ UNCHANGED <<raw_pos, req_result>>
             ELSE /\ ReqFinish(ReqRaise("ValueError",
                            "The YAML root list must contain str or mapping objects."))
                  /\ UNCHANGED <<raw_pos, item_i>>
  /\ requirements' = <<>> /\ matches' = <<>>
  /\ UNCHANGED <<raw_data, vars, textVars>>

\* pattern.findall(raw): a match at the position searched; the search goes on after it
FindallMatch ==
  /\ req_pc = "findall" /\ raw_pos <= Len(entry.chars)
  /\ MatchAt(entry.chars, raw_pos).found
  /\ matches' = Append(matches, <<MatchAt(entry.chars, raw_pos).key,
                                  MatchAt(entry.chars, raw_pos).value>>)
  /\ raw_pos' = MatchAt(entry.chars, raw_pos).end + 1
  /\ UNCHANGED <<raw_data, entry, item_i, requirements, req_pc, req_result, vars, textVars>>

\* pattern.findall(raw): no match at the position searched; the next one is tried
FindallSkip ==
  /\ req_pc = "findall" /\ raw_pos <= Len(entry.chars)
  /\ ~MatchAt(entry.chars, raw_pos).found
  /\ raw_pos' = raw_pos + 1
  /\ UNCHANGED <<raw_data, entry, matches, item_i, requirements, req_pc, req_result, vars, textVars>>

\* pattern.findall(raw) has reached the end of the text
FindallEnd ==
  /\ req_pc = "findall" /\ raw_pos > Len(entry.chars)
  /\ req_pc' = "matches" /\ item_i' = 1
  /\ UNCHANGED <<raw_data, entry, raw_pos, matches, requirements, req_result, vars, textVars>>

\* lines 80-83: one turn of the loop over the matches
TakeMatch ==
  /\ req_pc = "matches" /\ item_i <= Len(matches)
  /\ requirements' = TakeRequirement(requirements, matches[item_i][1], matches[item_i][2])
  /\ item_i' = item_i + 1
  /\ UNCHANGED <<raw_data, entry, raw_pos, matches, req_pc, req_result, vars, textVars>>

\* lines 99-105: one turn of the loop over the items of the mapping
TakeItem ==
  /\ req_pc = "items" /\ item_i <= Len(entry.items)
  /\ IF entry.items[item_i][1] = YStr(ALL)
     THEN item_i' = item_i + 1 /\ UNCHANGED <<requirements, req_pc, req_result>>
     ELSE IF entry.items[item_i][1].t # "str" \/ entry.items[item_i][2].t # "str"
     THEN /\ ReqFinish(ReqRaise("ValueError",
                                "Requirement identifiers and text must be strings."))
          /\ UNCHANGED <<requirements, item_i>>
     ELSE /\ requirements' = TakeRequirement(requirements, entry.items[item_i][1].chars,
                                             entry.items[item_i][2].chars)
          /\ item_i' = item_i + 1
          /\ UNCHANGED <<req_pc, req_result>>
  /\ UNCHANGED <<raw_data, entry, raw_pos, matches, vars, textVars>>

\* a faulty ReturnRequirements: an empty mapping is returned like any other
ReturnRequirementsEmpty ==
  /\ \/ req_pc = "matches" /\ item_i > Len(matches)
     \/ req_pc = "items" /\ item_i > Len(entry.items)
  /\ ReqFinish(ReqOk(requirements))
  /\ UNCHANGED <<raw_data, entry, raw_pos, matches, item_i, requirements, vars, textVars>>

\* lines 109-112, after either loop
ReturnRequirements ==
  /\ \/ req_pc = "matches" /\ item_i > Len(matches)
     \/ req_pc = "items" /\ item_i > Len(entry.items)
  /\ IF requirements = <<>>
     THEN ReqFinish(ReqRaise("ValueError",
                             "No requirement entries were found in the YAML file."))
     ELSE ReqFinish(ReqOk(requirements))
  /\ UNCHANGED <<raw_data, entry, raw_pos, matches, item_i, requirements, vars, textVars>>

\* parse_requirements_yaml is called on one of the files; no analyzer runs
InitReq ==
  /\ raw_data \in Documents
  /\ entry = YNone /\ raw_pos = 0 /\ matches = <<>> /\ item_i = 0
  /\ requirements = <<>> /\ req_pc = "start" /\ req_result = ReqRaise("", "")
  /\ TextIdle
  /\ tree = <<>>
  /\ assignment_map = <<>> /\ assignment_records = <<>>
  /\ collector = NewCollector /\ todo = <<>>
  /\ pc = "idle" /\ run = 0
  /\ module_env = <<>> /\ val2_value = VNone /\ flow_nodes = <<>>
  /\ func_def = NoNode /\ call_assign = NoNode
  /\ param_env = <<>> /\ local_env = <<>> /\ walk_i = 0 /\ res_value = VNone
  /\ evals = <<>> /\ history = <<>>

NextReq ==
  \/ ReadEntry
  \/ FindallMatch
  \/ FindallSkip
  \/ FindallEnd
  \/ TakeMatch
  \/ TakeItem
  \/ ReturnRequirements

allVars == <<vars, reqVars, textVars>>
SpecReq == InitReq /\ [][NextReq]_allVars

TxtFinish(res) == txt_result' = res /\ txt_pc' = "done"

\* extract_security_clauses is called: the binding of its parameters, neither of which
\* has a default (line 118), and lines 130-135
CallExtract ==
  /\ txt_pc = "start" /\ call.fn = "extract_security_clauses"
  /\ IF ~call.has_terms
     THEN TxtFinish(ReqRaise("TypeError", "extract_security_clauses() missing 1 required positional argument: 'terms'"))
          /\ UNCHANGED <<segments, seg_i>>
     ELSE IF call.text = <<>>
     THEN TxtFinish(ReqOk(<<>>)) /\ UNCHANGED <<segments, seg_i>>
     ELSE /\ segments' = SplitIntoClauses(call.text)
          /\ seg_i' = 1
          /\ txt_pc' = "clauses"
          /\ UNCHANGED txt_result
  /\ clauses' = <<>>
  /\ UNCHANGED <<call, found, prin_i, ent_i, vars, reqVars>>

\* a faulty TakeClause: the clause is searched as written, not lowered
TakeClauseAsWritten ==
  /\ txt_pc = "clauses" /\ seg_i <= Len(segments)
  /\ clauses' = IF AnyIn(call.terms, segments[seg_i])
                THEN Append(clauses, segments[seg_i]) ELSE clauses
  /\ seg_i' = seg_i + 1
  /\ UNCHANGED <<call, txt_pc, segments, found, prin_i, ent_i, txt_result, vars, reqVars>>

\* lines 136-139: one turn of the loop over the clauses
TakeClause ==
  /\ txt_pc = "clauses" /\ seg_i <= Len(segments)
  /\ clauses' = IF AnyIn(call.terms, Lower(segments[seg_i]))
                THEN Append(clauses, segments[seg_i]) ELSE clauses
  /\ seg_i' = seg_i + 1
  /\ UNCHANGED <<call, txt_pc, segments, found, prin_i, ent_i, txt_result, vars, reqVars>>

\* lines 141-144
ReturnClauses ==
  /\ txt_pc = "clauses" /\ seg_i > Len(segments)
  /\ clauses' = IF clauses = <<>> THEN <<Strip(call.text)>> ELSE clauses
  /\ TxtFinish(ReqOk(clauses'))
  /\ UNCHANGED <<call, segments, seg_i, found, prin_i, ent_i, vars, reqVars>>

\* lookup_principle_violations is called: lines 156-157
CallLookup ==
  /\ txt_pc = "start" /\ call.fn = "lookup_principle_violations"
  /\ found' = <<>> /\ prin_i' = 1 /\ ent_i' = 1
  /\ txt_pc' = "entries"
  /\ UNCHANGED <<call, segments, seg_i, clauses, txt_result, vars, reqVars>>

\* lines 159-164: the next principle, once the entries of the one looked at are done
NextPrinciple ==
  /\ txt_pc = "entries" /\ prin_i <= Len(call.principles)
  /\ ent_i > Len(call.principles[prin_i][2])
  /\ prin_i' = prin_i + 1 /\ ent_i' = 1
  /\ UNCHANGED <<call, txt_pc, segments, seg_i, clauses, found, txt_result, vars, reqVars>>

\* a faulty LookupEntry: matches[principle] is read, and so created, for every entry
LookupEntryTouching ==
  /\ txt_pc = "entries" /\ prin_i <= Len(call.principles)
  /\ ent_i <= Len(call.principles[prin_i][2])
  /\ found' =
       DictSet(found, call.principles[prin_i][1],
               DictGet(found, call.principles[prin_i][1], {})
                 \cup IF AnyIn(call.principles[prin_i][2][ent_i].keywords, Lower(call.text))
                      THEN {Strip(call.principles[prin_i][2][ent_i].violation)} ELSE {})
  /\ ent_i' = ent_i + 1
  /\ UNCHANGED <<call, txt_pc, segments, seg_i, clauses, prin_i, txt_result, vars, reqVars>>

\* lines 160-164: one entry of the principle looked at
LookupEntry ==
  /\ txt_pc = "entries" /\ prin_i <= Len(call.principles)
  /\ ent_i <= Len(call.principles[prin_i][2])
  /\ found' =
       IF AnyIn(call.principles[prin_i][2][ent_i].keywords, Lower(call.text))
       THEN DictSet(found, call.principles[prin_i][1],
                    DictGet(found, call.principles[prin_i][1], {})
                      \cup {Strip(call.principles[prin_i][2][ent_i].violation)})
       ELSE found
  /\ ent_i' = ent_i + 1
  /\ UNCHANGED <<call, txt_pc, segments, seg_i, clauses, prin_i, txt_result, vars, reqVars>>

\* line 166
ReturnViolations ==
  /\ txt_pc = "entries" /\ prin_i > Len(call.principles)
  /\ TxtFinish(ReqOk([i \in 1..Len(found) |-> <<found[i][1], Sorted(found[i][2])>>]))
  /\ UNCHANGED <<call, segments, seg_i, clauses, found, prin_i, ent_i, vars, reqVars>>

\* one of the text functions is called; no analyzer runs and no file is parsed
InitText ==
  /\ call \in Calls
  /\ txt_pc = "start" /\ segments = <<>> /\ seg_i = 0 /\ clauses = <<>> /\ found = <<>>
  /\ prin_i = 0 /\ ent_i = 0 /\ txt_result = ReqRaise("", "")
  /\ raw_data = YNone /\ entry = YNone /\ raw_pos = 0 /\ matches = <<>> /\ item_i = 0
  /\ requirements = <<>> /\ req_pc = "idle" /\ req_result = ReqRaise("", "")
  /\ tree = <<>>
  /\ assignment_map = <<>> /\ assignment_records = <<>>
  /\ collector = NewCollector /\ todo = <<>>
  /\ pc = "idle" /\ run = 0
  /\ module_env = <<>> /\ val2_value = VNone /\ flow_nodes = <<>>
  /\ func_def = NoNode /\ call_assign = NoNode
  /\ param_env = <<>> /\ local_env = <<>> /\ walk_i = 0 /\ res_value = VNone
  /\ evals = <<>> /\ history = <<>>

NextText ==
  \/ CallExtract
  \/ TakeClause
  \/ ReturnClauses
  \/ CallLookup
  \/ NextPrinciple
  \/ LookupEntry
  \/ ReturnViolations

SpecText == InitText /\ [][NextText]_allVars

(***************************************************************************)
(* The properties.                                                         *)
(***************************************************************************)
\* what the last finished run_pipeline returned or raised
Outcome == history[Len(history)].result

CalculatorA == FunctionDef("simpleCalculator", <<"v2">>, <<ResMinusOne, ReturnRes>>)
CallVal2 == CallOf("simpleCalculator", <<Name("val2")>>)

\* the file is scenario A with val2 = c (with or without a further module binding)
IsScenarioA(c) ==
  tree \in {<<AssignName("val2", Lit(c)), CalculatorA, CallVal2>>,
            <<AssignName("val2", Lit(c)), AssignName("x", BinOp(Name("val2"), "Add", Num(1))),
              CalculatorA, CallVal2>>}

\* C1: on scenario A with val2 = c, run_pipeline returns the five waypoints
\* c, "val2", "v2", "res", c - 1 in that order, joined by "->"
\* (for c = 5 the string "5->val2->v2->res->4").
C1_ScenarioAChain ==
  \A c \in Literals :
    (pc = "done" /\ IsScenarioA(c)) =>
      /\ flow_nodes = <<VInt(c), VStr("val2"), VStr("v2"), VStr("res"), VInt(c - 1)>>
      /\ Outcome = Ok(VStr(ToString(c) \o "->val2->v2->res->" \o ToString(c - 1)))
      /\ (c = 5 => Outcome.v.s = "5->val2->v2->res->4")

C1_Witness ==
  /\ pc = "done" /\ IsScenarioA(5)
  /\ Outcome = Ok(VStr("5->val2->v2->res->4"))

\* the names a statement list assigns by plain assignments
Targets(stmts) ==
  {stmts[i].targets[1].id : i \in {j \in 1..Len(stmts) : stmts[j].k = "Assign"}}

\* the value expressions of the assignments of a statement list
AssignValues(stmts) ==
  {stmts[i].value : i \in {j \in 1..Len(stmts) : stmts[j].k = "Assign"}}

\* the statement list assigns res from an expression over v2
AssignsResFromV2(stmts) ==
  \E i \in 1..Len(stmts) :
    /\ stmts[i].k = "Assign"
    /\ stmts[i].targets = <<Name("res")>>
    /\ ExpressionContainsName(stmts[i].value, "v2")

\* reference execution of a list of plain assignments up to the first one to res:
\* each binds its target to the value of its expression in the environment so far
RECURSIVE RunAssigns(_, _)
RunAssigns(stmts, env) ==
  IF stmts = <<>> THEN [ok |-> TRUE, env |-> env]
  ELSE IF ~EvaluateExpression(Head(stmts).value, env).ok THEN [ok |-> FALSE, env |-> env]
  ELSE IF Head(stmts).targets = <<Name("res")>>
    THEN [ok |-> TRUE,
          env |-> DictSet(env, "res", EvaluateExpression(Head(stmts).value, env).v)]
  ELSE RunAssigns(Tail(stmts),
                  DictSet(env, Head(stmts).targets[1].id,
                          EvaluateExpression(Head(stmts).value, env).v))

\* the callee starts with an If whose two branches assign res from v2, its test has
\* been evaluated to a value, and no assignment follows the If
IfScenario ==
  /\ func_def # NoNode /\ func_def.body # <<>> /\ func_def.body[1].k = "If"
  /\ AssignsResFromV2(func_def.body[1].body) /\ AssignsResFromV2(func_def.body[1].orelse)
  /\ \A j \in 2..Len(func_def.body) : func_def.body[j].k # "Assign"
  /\ \E i \in 1..Len(evals) : evals[i].site = "test" /\ evals[i].res.ok

TakenBranch ==
  IF Truthy(EvaluateExpression(func_def.body[1].test, param_env).v)
  THEN func_def.body[1].body ELSE func_def.body[1].orelse

OtherBranch ==
  IF Truthy(EvaluateExpression(func_def.body[1].test, param_env).v)
  THEN func_def.body[1].orelse ELSE func_def.body[1].body

\* C2: when the callee body is an If whose two branches assign res differently from v2,
\* the result waypoint is the value computed by the branch that the truth of the test
\* under the bound parameters selects, and no assignment of the other branch is
\* executed: it changes neither the activation environment nor the chain.
C2_TakenBranchOnly ==
  IfScenario =>
    /\ \A i \in 1..Len(evals) :
         evals[i].site = "assign" => evals[i].node \in AssignValues(TakenBranch)
    /\ \A name \in Targets(OtherBranch) \ Targets(TakenBranch) : ~DictHas(local_env, name)
    /\ RunAssigns(TakenBranch, param_env).ok =>
         /\ local_env = RunAssigns(TakenBranch, param_env).env
         /\ pc \in {"res", "done"}
         /\ res_value = DictGet(local_env, "res", VNone)
         /\ pc = "done" =>
              /\ Outcome.ok
              /\ SubSeq(flow_nodes, Len(flow_nodes) - 1, Len(flow_nodes))
                   = <<VStr("res"), DictGet(RunAssigns(TakenBranch, param_env).env, "res", VNone)>>
    /\ (~RunAssigns(TakenBranch, param_env).ok /\ pc = "done") => ~Outcome.ok

C2_Witness ==
  /\ IfScenario /\ pc = "done" /\ Outcome.ok
  /\ TakenBranch = func_def.body[1].orelse
  /\ DictHas(local_env, "e") /\ ~DictHas(local_env, "t")
  /\ res_value = VInt(val2_value.n - 1)

\* the expression is built of numbers, names bound to numbers in env, negation,
\* addition and subtraction only
RECURSIVE IsNumericAddSub(_, _)
IsNumericAddSub(node, env) ==
  CASE node.k = "Constant" -> IsNumber(node.value)
    [] node.k = "Name" -> DictHas(env, node.id) /\ IsNumber(DictGet(env, node.id, VNone))
    [] node.k = "UnaryOp" -> node.op = "USub" /\ IsNumericAddSub(node.operand, env)
    [] node.k = "BinOp" ->
         /\ node.op \in {"Add", "Sub"}
         /\ IsNumericAddSub(node.left, env) /\ IsNumericAddSub(node.right, env)
    [] OTHER -> FALSE

\* reference arithmetic: the integer such an expression denotes
RECURSIVE RefInt(_, _)
RefInt(node, env) ==
  CASE node.k = "Constant" -> node.value.n
    [] node.k = "Name" -> DictGet(env, node.id, VNone).n
    [] node.k = "UnaryOp" -> 0 - RefInt(node.operand, env)
    [] node.k = "BinOp" ->
         IF node.op = "Add" THEN RefInt(node.left, env) + RefInt(node.right, env)
         ELSE RefInt(node.left, env) - RefInt(node.right, env)

\* an inline add/subtract expression over module names with numeric literal bindings
IsInlineComputed(node) == node.k = "BinOp" /\ IsNumericAddSub(node, module_env)

\* a name whose own module-level binding is such a computed expression
IsComputedName(node) ==
  /\ node.k = "Name"
  /\ DictHas(DictGet(assignment_map, "module", <<>>), node.id)
  /\ IsInlineComputed(DictGet(DictGet(assignment_map, "module", <<>>), node.id, NoNode))

\* the running trace has evaluated the arguments of a call with one argument
OneArgumentEvaluated ==
  /\ call_assign # NoNode /\ func_def # NoNode
  /\ Len(call_assign.value.args) = 1
  /\ evals # <<>>

\* C3 as claimed: a call argument that is a computed expression over module-level
\* bindings, inline or a name whose own module-level binding is such an expression,
\* is resolved to a value: its evaluation does not fail.
C3_Original ==
  (/\ OneArgumentEvaluated
   /\ \/ IsInlineComputed(call_assign.value.args[1])
      \/ IsComputedName(call_assign.value.args[1]))
  => evals[1].res.ok

\* C3 as amended: an inline add/subtract expression over module names with numeric
\* literal bindings is resolved by the general evaluator to its value, the parameter is
\* bound to that value and the result waypoint is computed from it; a name whose own
\* module-level binding is a computed expression is not in the module environment,
\* and the trace fails with the unknown-name error (KeyError).
C3_InlineArgumentResolved ==
  OneArgumentEvaluated =>
    LET arg == call_assign.value.args[1] IN
    /\ IsInlineComputed(arg) =>
         /\ evals[1] = Eval("arg", arg, module_env, Ok(VInt(RefInt(arg, module_env))))
         /\ func_def.args # <<>> =>
              param_env = <<<<func_def.args[1], VInt(RefInt(arg, module_env))>>>>
         /\ (pc = "done" /\ func_def = CalculatorA) =>
              /\ Outcome.ok
              /\ SubSeq(flow_nodes, Len(flow_nodes) - 1, Len(flow_nodes))
                   = <<VStr("res"), VInt(RefInt(arg, module_env) - 1)>>
    /\ IsComputedName(arg) =>
         /\ evals = <<Eval("arg", arg, module_env, Raise("KeyError", "Unknown name"))>>
         /\ pc = "done" /\ Outcome = Raise("KeyError", "Unknown name")

C3_Witness ==
  /\ OneArgumentEvaluated /\ pc = "done" /\ Outcome.ok
  /\ call_assign.value.args[1] = BinOp(Name("val2"), "Add", Num(1))
  /\ val2_value = VInt(5) /\ func_def = CalculatorA
  /\ Outcome.v.s = "5->val2->res->5"

\* the expression contains a binary operator other than add/subtract or a unary
\* operator other than negation
RECURSIVE HasUnsupported(_)
HasUnsupported(node) ==
  CASE node.k = "UnaryOp" -> node.op # "USub" \/ HasUnsupported(node.operand)
    [] node.k = "BinOp" ->
         \/ node.op \notin {"Add", "Sub"}
         \/ HasUnsupported(node.left) \/ HasUnsupported(node.right)
    [] node.k = "Compare" ->
         \/ HasUnsupported(node.left)
         \/ \E i \in 1..Len(node.comparators) : HasUnsupported(node.comparators[i])
    [] OTHER -> FALSE

\* C4 as claimed: if an expression the trace evaluates (a call argument, the value of
\* an executed assignment, an If test, a Return value) contains a binary operator other
\* than add/subtract or a unary operator other than negation, run_pipeline fails with
\* the unsupported-construct ValueError and returns no chain.
C4_Original ==
  (pc = "done" /\ \E i \in 1..Len(evals) : HasUnsupported(evals[i].node))
  => (~Outcome.ok /\ Outcome.err = "ValueError")

\* C5 as claimed: for every expression the literal-only evaluator accepts, here the
\* value expressions of the recorded assignments, _evaluate_literal(e) and
\* _evaluate_expression(e, {}) both succeed and return the same value.
C5_Original ==
  \A i \in 1..Len(assignment_records) :
    EvaluateLiteral(assignment_records[i].value_node).ok =>
      EvaluateExpression(assignment_records[i].value_node, <<>>)
        = EvaluateLiteral(assignment_records[i].value_node)

\* no key occurs twice in the dict
UniqueKeys(d) == \A i, j \in 1..Len(d) : d[i][1] = d[j][1] => i = j

\* the index of the last record with the scope and target of record i
LastRecord(records, i) ==
  CHOOSE j \in 1..Len(records) :
    /\ records[j].scope = records[i].scope /\ records[j].target = records[i].target
    /\ \A l \in (j + 1)..Len(records) :
         ~(records[l].scope = records[i].scope /\ records[l].target = records[i].target)

\* every module-level statement is a function definition or an assignment to one name
PlainModule ==
  \A i \in 1..Len(tree) :
    \/ tree[i].k = "FunctionDef"
    \/ tree[i].k = "Assign" /\ Len(tree[i].targets) = 1 /\ tree[i].targets[1].k = "Name"

IsModuleAssign(stmt) == stmt.k = "Assign"
IsModuleRecord(record) == record.scope = "module"

\* C6: after the collector has visited any sequence of assignment statements, the scope
\* table holds exactly one entry per assigned (scope, name) pair, and that entry is the
\* value expression of the last record with that scope and target; N reassignments of
\* one name in one scope leave one entry, the N-th, while the record list holds all N
\* in order.
C6_LastWriteWins ==
  LET m == collector.assignment_map
      r == collector.records
  IN /\ UniqueKeys(m)
     /\ \A i \in 1..Len(m) : UniqueKeys(m[i][2])
     /\ \A i \in 1..Len(r) :
          /\ DictHas(DictGet(m, r[i].scope, <<>>), r[i].target)
          /\ DictGet(DictGet(m, r[i].scope, <<>>), r[i].target, NoNode)
               = r[LastRecord(r, i)].value_node
     /\ \A i \in 1..Len(m) : \A j \in 1..Len(m[i][2]) :
          \E l \in 1..Len(r) : r[l].scope = m[i][1] /\ r[l].target = m[i][2][j][1]
     /\ (pc \notin {"idle", "collect"} /\ PlainModule) =>
          /\ assignment_map = m /\ assignment_records = r
          /\ LET stmts == SelectSeq(tree, IsModuleAssign)
                 recs == SelectSeq(r, IsModuleRecord)
             IN /\ Len(recs) = Len(stmts)
                /\ \A i \in 1..Len(stmts) :
                     /\ recs[i].target = stmts[i].targets[1].id
                     /\ recs[i].value_node = stmts[i].value

C6_Witness ==
  /\ pc = "flow"
  /\ Len(tree) = 5
  /\ \A i \in 1..3 : tree[i].k = "Assign" /\ tree[i].targets = <<Name("val2")>>
  /\ tree[2].value # tree[3].value
  /\ Len(SelectSeq(assignment_records, IsModuleRecord)) = 4
  /\ DictGet(assignment_map, "module", <<>>) = <<<<"val2", tree[3].value>>, <<"out", tree[5].value>>>>

\* C7: run_pipeline called again on the same unchanged source returns the same string
\* or raises the same error, and leaves the same scope table and record list: nothing
\* of an earlier run is visible in a later one.
C7_RunsAgree ==
  /\ \A i \in 1..Len(history) : history[i] = history[1]
  /\ (pc = "collect" /\ collector.records # <<>>) =>
       \E i \in 1..Len(tree) : tree[i].k \in {"Assign", "FunctionDef", "If", "While"}

C7_Witness ==
  /\ Len(history) = 2 /\ pc = "done"
  /\ history[2].result = Ok(VStr("5->val2->v2->res->4"))
  /\ Len(history[2].assignment_records) = 4

\* val2 has a module-level binding that the literal-only evaluator reduces to a value
HasLiteralVal2 ==
  /\ DictHas(DictGet(assignment_map, "module", <<>>), "val2")
  /\ EvaluateLiteral(DictGet(DictGet(assignment_map, "module", <<>>), "val2", NoNode)).ok

NotFoundMessages ==
  {"Could not resolve the initial value for val2", "Function simpleCalculator not found",
   "Call to simpleCalculator not found"}

\* C8 as claimed: generate_flow fails with the NotFound error (a ValueError), and raises
\* no other kind of error, whenever val2 has no literal-evaluable module-level binding,
\* or no top-level function simpleCalculator exists, or no assignment whose value is a
\* call to simpleCalculator can be located.
C8_Original ==
  (/\ pc = "done"
   /\ \/ ~HasLiteralVal2
      \/ GetFunctionDef(tree, "simpleCalculator") = NoNode
      \/ FindFunctionCallAssignment(tree, "simpleCalculator") = NoNode)
  => /\ ~Outcome.ok
     /\ Outcome.err = "ValueError"
     /\ Outcome.msg \in NotFoundMessages

\* C9: every run of run_pipeline ends in one of two ways: it returns a complete chain,
\* which starts with the watched value and "val2" and ends with "res" and a result
\* that is not None, or it raises an error; an error raised while the call arguments
\* are evaluated or the callee body is executed is caught nowhere: it is what
\* run_pipeline raises.
C9_CompleteOrError ==
  /\ (pc = "done" /\ Outcome.ok) =>
       /\ val2_value # VNone /\ res_value # VNone
       /\ \/ flow_nodes = <<val2_value, VStr("val2"), VStr("res"), res_value>>
          \/ flow_nodes = <<val2_value, VStr("val2"), VStr("v2"), VStr("res"), res_value>>
       /\ Outcome.v.t = "str"
       /\ Outcome.v.s \in
            {PyStr(val2_value) \o "->val2->res->" \o PyStr(res_value),
             PyStr(val2_value) \o "->val2->v2->res->" \o PyStr(res_value)}
  /\ \A i \in 1..Len(evals) :
       ~evals[i].res.ok => (i = Len(evals) /\ pc = "done" /\ Outcome = evals[i].res)

C9_Witness ==
  /\ pc = "done" /\ evals # <<>>
  /\ evals[Len(evals)].site = "assign"
  /\ Outcome = Raise("KeyError", "Unknown name")

\* the KEY:"text" pair a piece of a compact entry is
PairOf(piece) == CHOOSE p \in WrittenPairs : Quoted(p[1], p[2]) = piece
IsPairPiece(piece) == piece \in PairPieces

\* the entry is a mapping, or a compact text written as KEY:"text" pairs and separators
WellFormed(e) ==
  \/ e.t = "dict"
  \/ e.t = "str" /\ \A i \in 1..Len(e.parts) : e.parts[i] \in PairPieces \cup {<<" ">>}

\* the (key, text) pairs of a well-formed entry, in file order
Written(e) ==
  IF e.t = "dict"
  THEN [i \in 1..Len(e.items) |-> <<e.items[i][1].chars, e.items[i][2].chars>>]
  ELSE LET pairs == SelectSeq(e.parts, IsPairPiece)
       IN [i \in 1..Len(pairs) |-> PairOf(pairs[i])]

\* where the key is first and last written
FirstOf(written, key) ==
  CHOOSE i \in 1..Len(written) :
    written[i][1] = key /\ \A j \in 1..(i - 1) : written[j][1] # key
LastOf(written, key) ==
  CHOOSE i \in 1..Len(written) :
    written[i][1] = key /\ \A j \in (i + 1)..Len(written) : written[j][1] # key

\* C10: parse_requirements_yaml never returns an entry keyed "ALL": for both the mapping
\* form and the compact KEY:"text" string form of the first list entry, the result
\* holds exactly the non-ALL keys of that entry, in file order, each mapped to its
\* stripped text (the text written last, for a key the compact form repeats).
C10_NoAllKey ==
  /\ \A i \in 1..Len(requirements) : requirements[i][1] # ALL
  /\ (req_pc = "done" /\ req_result.ok) =>
       LET r == req_result.v
           w == Written(entry)
       IN /\ entry = raw_data.items[1]
          /\ \A i \in 1..Len(r) : r[i][1] # ALL
          /\ WellFormed(entry) =>
               /\ UniqueKeys(r)
               /\ {r[i][1] : i \in 1..Len(r)} = {w[i][1] : i \in 1..Len(w)} \ {ALL}
               /\ \A i, j \in 1..Len(r) :
                    i < j => FirstOf(w, r[i][1]) < FirstOf(w, r[j][1])
               /\ \A i \in 1..Len(r) : r[i][2] = Strip(w[LastOf(w, r[i][1])][2])

C10_Witness ==
  /\ req_pc = "done"
  /\ entry = YCompact(<<Quoted(<<"R", "2">>, <<" ", "b">>), Quoted(ALL, <<"c">>),
                        Quoted(<<"R", "1">>, <<"a", " ">>)>>)
  /\ req_result = ReqOk(<<<<<<"R", "2">>, <<"b">>>>, <<<<"R", "1">>, <<"a">>>>>>)

\* the first list entry is a mapping in which a key other than ALL, or its value, is no str
HasNonStringItem(doc) ==
  /\ doc.t = "list" /\ doc.items # <<>> /\ doc.items[1].t = "dict"
  /\ \E i \in 1..Len(doc.items[1].items) :
       /\ doc.items[1].items[i][1] # YStr(ALL)
       /\ doc.items[1].items[i][1].t # "str" \/ doc.items[1].items[i][2].t # "str"

\* the first list entry holds no requirement but ALL: a mapping with no other key, or
\* a text in which the pattern finds no other key
NothingButAll(doc) ==
  /\ doc.t = "list" /\ doc.items # <<>>
  /\ \/ /\ doc.items[1].t = "dict"
        /\ \A i \in 1..Len(doc.items[1].items) : doc.items[1].items[i][1] = YStr(ALL)
     \/ /\ doc.items[1].t = "str"
        /\ \A p \in 1..Len(doc.items[1].chars) :
             MatchAt(doc.items[1].chars, p).found
               => (MatchAt(doc.items[1].chars, p).key = ALL
                   \/ (p > 1 /\ doc.items[1].chars[p - 1] \in WordChars))

\* C11: parse_requirements_yaml raises ValueError and returns no mapping when the YAML
\* root is not a non-empty list, when the first list entry is neither a string nor a
\* mapping, when a non-ALL key or value of the mapping is not a string, or when no
\* requirement remains after dropping ALL.
C11_RejectsWithValueError ==
  (/\ req_pc = "done"
   /\ \/ raw_data.t # "list" \/ raw_data.items = <<>>
      \/ raw_data.items[1].t \notin {"str", "dict"}
      \/ HasNonStringItem(raw_data)
      \/ NothingButAll(raw_data))
  => /\ ~req_result.ok /\ req_result.err = "ValueError" /\ req_result.v = <<>>
     /\ req_result.msg \in
          {"YAML content must be a non-empty list of mappings.",
           "The YAML root list must contain str or mapping objects.",
           "Requirement identifiers and text must be strings.",
           "No requirement entries were found in the YAML file."}

C11_Witness ==
  /\ req_pc = "done"
  /\ raw_data = YList(<<YDict(<<<<YStr(ALL), YInt>>, <<YStr(<<"R", "1">>), YStr(<<"b">>)>>,
                                <<YStr(<<"R", "2">>), YInt>>>>)>>)
  /\ req_result = ReqRaise("ValueError", "Requirement identifiers and text must be strings.")

\* the clause contains, ignoring case, one of the terms of the call
MentionsTerm(clause) ==
  \E i \in 1..Len(call.terms) : Contains(Lower(clause), Lower(call.terms[i]))

MentionsBuiltIn(clause) == \E term \in TERMS : Contains(Lower(clause), term)

\* C13 as claimed: extract_security_clauses called with the requirement text alone
\* succeeds and matches against the built-in term set: a clause that mentions such a
\* term is returned.
C13_Original ==
  (txt_pc = "done" /\ call.fn = "extract_security_clauses" /\ ~call.has_terms) =>
    /\ txt_result.ok
    /\ \A i \in 1..Len(SplitIntoClauses(call.text)) :
         (call.text # <<>> /\ MentionsBuiltIn(SplitIntoClauses(call.text)[i]))
           => \E j \in 1..Len(txt_result.v) : txt_result.v[j] = SplitIntoClauses(call.text)[i]

\* a keyword of the entry occurs in the text, ignoring case
EntryMatches(e) ==
  \E i \in 1..Len(e.keywords) : Contains(Lower(call.text), Lower(e.keywords[i]))

\* C14: lookup_principle_violations returns a key for a principle if and only if at
\* least one keyword of one of its entries occurs in the text ignoring case, so no key
\* maps to an empty list; each returned list holds the violation strings of the
\* matching entries, stripped, without duplicates and in sorted order.
C14_MatchedPrinciplesOnly ==
  (txt_pc = "done" /\ call.fn = "lookup_principle_violations") =>
    /\ txt_result.ok
    /\ UniqueKeys(txt_result.v)
    /\ \A i \in 1..Len(call.principles) :
         DictHas(txt_result.v, call.principles[i][1])
           <=> \E j \in 1..Len(call.principles[i][2]) : EntryMatches(call.principles[i][2][j])
    /\ \A i \in 1..Len(txt_result.v) :
         /\ txt_result.v[i][2] # <<>>
         /\ \E p \in 1..Len(call.principles) :
              /\ call.principles[p][1] = txt_result.v[i][1]
              /\ {txt_result.v[i][2][k] : k \in 1..Len(txt_result.v[i][2])}
                   = {Strip(call.principles[p][2][j].violation) :
                        j \in {l \in 1..Len(call.principles[p][2]) :
                                 EntryMatches(call.principles[p][2][l])}}
         /\ \A k \in 1..(Len(txt_result.v[i][2]) - 1) :
              StrLess(txt_result.v[i][2][k], txt_result.v[i][2][k + 1])

C14_Witness ==
  /\ txt_pc = "done"
  /\ call.text = <<"I", "v", "x", ".">> /\ Len(call.principles) = 3
  /\ txt_result = ReqOk(<<<<"P1", <<<<"i">>, <<"x">>>>>>>>)

\* the positions of param_env whose value equals the watched initial value
Holders == {i \in 1..Len(param_env) : PyEq(param_env[i][2], val2_value)}

\* C15: once the call arguments are bound, if some callee parameter, whatever its name
\* or position, holds a value equal to the watched initial value, the chain is the
\* initial value, "val2" and then that parameter's name; if no parameter holds the
\* watched value the chain is the initial value and "val2" only.
C15_Original ==
  pc = "walk" =>
    IF Holders # {}
    THEN \E i \in Holders : flow_nodes = <<val2_value, VStr("val2"), VStr(param_env[i][1])>>
    ELSE flow_nodes = <<val2_value, VStr("val2")>>

IsCalculatorCall(stmt) == IsCallAssign(stmt, "simpleCalculator")

\* the assignments calling simpleCalculator that the lookup can see, in source order:
\* top-level statements and statements directly in the body of a top-level If
RECURSIVE LocatableCalls(_)
LocatableCalls(body) ==
  IF body = <<>> THEN <<>>
  ELSE (IF IsCalculatorCall(Head(body)) THEN <<Head(body)>>
        ELSE IF Head(body).k = "If" THEN SelectSeq(Head(body).body, IsCalculatorCall)
        ELSE <<>>) \o LocatableCalls(Tail(body))

IsArgEval(ev) == ev.site = "arg"

\* a call site after the first one, assigning to target
LaterCall(target) == AssignName(target, Call(Name("simpleCalculator"), <<Num(1)>>))

\* scenario A with val2 = c followed by a second call site assigning to target
IsScenarioAThen(c, target) ==
  tree = <<AssignName("val2", Lit(c)), CalculatorA, CallVal2, LaterCall(target)>>

\* C16 as stated: with more than one locatable call assignment the first one supplies
\* the arguments and the later call sites have no effect on the chain, so scenario A
\* followed by a second call site returns the chain of scenario A.
C16_Original ==
  \A c \in Literals : \A target \in {"z", "val2"} :
    (pc = "done" /\ IsScenarioAThen(c, target)) =>
      Outcome = Ok(VStr(ToString(c) \o "->val2->v2->res->" \o ToString(c - 1)))

\* C16: with more than one locatable call assignment, the first one in source order is
\* the call of the trace: its argument expressions, and no others, are evaluated in the
\* module environment and bound to the parameters. A later call site only counts as a
\* module-level assignment to its target: scenario A followed by `z = simpleCalculator(1)`
\* returns the chain of scenario A, and followed by `val2 = simpleCalculator(1)` it
\* fails because the last binding of val2 is no literal.
C16_FirstCallSupplies ==
  LET calls == LocatableCalls(tree)
      argEvals == SelectSeq(evals, IsArgEval)
  IN /\ (Len(calls) > 1 /\ pc \in {"args", "walk", "res"}) =>
          /\ call_assign = calls[1]
          /\ Len(argEvals) <= Len(calls[1].value.args)
          /\ \A i \in 1..Len(argEvals) :
               /\ argEvals[i].node = calls[1].value.args[i]
               /\ argEvals[i].env = module_env
          /\ pc \in {"walk", "res"} =>
               /\ Len(argEvals) = Len(calls[1].value.args)
               /\ param_env = DictZip(func_def.args, [i \in 1..Len(argEvals) |-> argEvals[i].res.v])
     /\ \A c \in Literals :
          /\ (pc = "done" /\ IsScenarioAThen(c, "z")) =>
               Outcome = Ok(VStr(ToString(c) \o "->val2->v2->res->" \o ToString(c - 1)))
          /\ (pc = "done" /\ IsScenarioAThen(c, "val2")) =>
               Outcome = Raise("ValueError", "Could not resolve the initial value for val2")

C16_Witness ==
  /\ pc = "done" /\ IsScenarioAThen(5, "z")
  /\ Len(LocatableCalls(tree)) = 2 /\ call_assign = CallVal2
  /\ Outcome = Ok(VStr("5->val2->v2->res->4"))

IsChained(node) == node.k = "Compare" /\ Len(node.comparators) > 1

\* C17: the evaluation of a comparison with more than one comparator returns no value:
\* it fails, and when its left operand has a value the failure is the
\* unsupported-construct error (ValueError).
C17_Original ==
  \A i \in 1..Len(evals) :
    IsChained(evals[i].node) =>
      /\ ~evals[i].res.ok
      /\ EvaluateExpression(evals[i].node.left, evals[i].env).ok => evals[i].res.err = "ValueError"

\* some top-level assignment statement of the tree binds name to value_node
TopLevelBinds(name, value_node) ==
  \E i \in 1..Len(tree) :
    /\ tree[i].k = "Assign"
    /\ LET pairs == AssignmentPairs(tree[i].targets, tree[i].value)
       IN \E j \in 1..Len(pairs) :
            pairs[j][1].k = "Name" /\ pairs[j][1].id = name /\ pairs[j][2] = value_node

\* C18: after the collection, every record with scope "module" and every entry of the
\* "module" scope table comes from an assignment that is a direct top-level statement;
\* an assignment nested in a compound statement outside any function leaves neither.
C18_Original ==
  pc = "flow" =>
    /\ \A i \in 1..Len(assignment_records) :
         IsModuleRecord(assignment_records[i]) =>
           TopLevelBinds(assignment_records[i].target, assignment_records[i].value_node)
    /\ LET module_assigns == DictGet(assignment_map, "module", <<>>)
       IN \A i \in 1..Len(module_assigns) :
            TopLevelBinds(module_assigns[i][1], module_assigns[i][2])

\* a single tuple target and a tuple value of the same length
IsElementwise(node) ==
  /\ Len(node.targets) = 1 /\ node.targets[1].k = "Tuple" /\ node.value.k = "Tuple"
  /\ Len(node.targets[1].elts) = Len(node.value.elts)

\* the pairs the statement should give: element by element, or each target with the whole
PairsAsStated(node) ==
  IF IsElementwise(node)
  THEN [i \in 1..Len(node.value.elts) |-> <<node.targets[1].elts[i], node.value.elts[i]>>]
  ELSE [i \in 1..Len(node.targets) |-> <<node.targets[i], node.value>>]

IsNamePair(pair) == pair[1].k = "Name"

\* what visit_Assign of the statement at the head of the work list should do
VisitAssignAsStated ==
  LET node == Head(todo).node
      scope == collector.scope_stack[Len(collector.scope_stack)]
      named == SelectSeq(PairsAsStated(node), IsNamePair)
      old == collector.records
      new == collector'.records
      before == DictGet(collector.assignment_map, scope, <<>>)
      after == DictGet(collector'.assignment_map, scope, <<>>)
  IN /\ Len(new) = Len(old) + Len(named)
     /\ SubSeq(new, 1, Len(old)) = old
     /\ \A i \in 1..Len(named) :
          new[Len(old) + i] = Record(scope, named[i][1].id, named[i][2], ToSource(named[i][2]))
     /\ \A i \in 1..Len(named) :
          (\A j \in (i + 1)..Len(named) : named[j][1].id # named[i][1].id) =>
            DictGet(after, named[i][1].id, NoNode) = named[i][2]
     /\ \A i \in 1..Len(after) :
          \/ \E j \in 1..Len(named) : named[j][1].id = after[i][1]
          \/ DictHas(before, after[i][1]) /\ DictGet(before, after[i][1], NoNode) = after[i][2]
     /\ Len(named) = 0 => collector' = collector

\* C19: visiting an assignment with a single tuple target and a tuple value of the same
\* length pairs target i with value element i; in every other case every target is paired
\* with the whole value. The pairs whose target is a plain name are appended to the records
\* in pair order and entered in the scope table; a pair with another target leaves nothing.
C19_PairsAsStated ==
  [][(pc = "collect" /\ todo # <<>> /\ Head(todo).op = "visit" /\ Head(todo).node.k = "Assign")
       => VisitAssignAsStated]_allVars

C19_Witness ==
  /\ pc = "flow" /\ Len(tree) = 5 /\ Len(assignment_records) >= 3
  /\ SubSeq(tree, 1, 3) =
       <<Assign(<<Tuple(<<Name("x"), Name("val2")>>)>>, Tuple(<<Num(0), Num(1)>>)),
         Assign(<<Tuple(<<Name("x"), Name("val2")>>)>>, Tuple(<<Num(0), Num(1), Num(2)>>)),
         Assign(<<Tuple(<<Attribute(Name("cfg"), "val2"), Name("x")>>)>>, Tuple(<<Num(0), Num(1)>>))>>
  /\ SubSeq(assignment_records, 1, 3) =
       <<Record("module", "x", Num(0), "0"), Record("module", "val2", Num(1), "1"),
         Record("module", "x", Num(1), "1")>>
  /\ DictGet(DictGet(assignment_map, "module", <<>>), "val2", NoNode) = Num(1)

IsTestEval(ev) == ev.site = "test"

\* the callee body starts with an If whose test has a value and whose taken branch
\* starts with another If
NestedIfScenario ==
  /\ func_def # NoNode /\ func_def.body # <<>> /\ func_def.body[1].k = "If"
  /\ EvaluateExpression(func_def.body[1].test, param_env).ok
  /\ TakenBranch # <<>> /\ TakenBranch[1].k = "If"

\* C20: an If nested in the taken branch of an If of the callee body is handled like a
\* top-level body statement: once the walk of the body is over, the test of the outer If
\* and the test of the nested If have both been evaluated.
C20_Original ==
  (pc \in {"res", "done"} /\ NestedIfScenario /\ \E i \in 1..Len(evals) : IsTestEval(evals[i])) =>
    Len(SelectSeq(evals, IsTestEval)) >= 2

IsAssignEval(ev) == ev.site = "assign"

\* the branch of an If statement that the environment selects
BranchOf(stmt, env) ==
  IF Truthy(EvaluateExpression(stmt.test, env).v) THEN stmt.body ELSE stmt.orelse

\* the statement is a Return, or an If whose test has a value and whose taken branch
\* starts with a Return
ReachesReturn(stmt, env) ==
  \/ stmt.k = "Return"
  \/ /\ stmt.k = "If" /\ EvaluateExpression(stmt.test, env).ok
     /\ BranchOf(stmt, env) # <<>> /\ BranchOf(stmt, env)[1].k = "Return"

ReachedReturn(stmt, env) == IF stmt.k = "Return" THEN stmt ELSE BranchOf(stmt, env)[1]

\* the step of the walk on a statement that reaches the Return r
ReturnEndsWalk(r) ==
  LET value == EvaluateExpression(r.value, local_env)
  IN /\ Len(SelectSeq(evals', IsAssignEval)) = Len(SelectSeq(evals, IsAssignEval))
     /\ IF r.hasValue /\ ~value.ok
        THEN pc' = "done" /\ history'[Len(history')].result = value
        ELSE /\ pc' = "res" /\ walk_i' = walk_i /\ local_env' = local_env
             /\ res_value' = IF r.hasValue THEN value.v ELSE VNone

\* C21: when the walk reaches a Return before a qualifying res assignment, the walk ends
\* in that step: no later statement is executed, the result of the walk is the value of
\* the Return's expression in the current environment, and None for a bare Return; a
\* walk that ended with None makes the trace fail with the not-found ValueError.
C21_ReturnEndsWalk ==
  [][/\ (pc = "walk" /\ walk_i <= Len(func_def.body)
          /\ ReachesReturn(func_def.body[walk_i], local_env))
        => ReturnEndsWalk(ReachedReturn(func_def.body[walk_i], local_env))
     /\ (pc = "res" /\ res_value = VNone)
        => /\ pc' = "done"
           /\ history'[Len(history')].result =
                Raise("ValueError", "Could not resolve the value assigned to res")]_allVars

C21_Witness ==
  /\ pc = "done"
  /\ tree = <<AssignName("val2", Num(2)),
              FunctionDef("simpleCalculator", <<"v2">>,
                <<If(Eq(Name("v2"), Num(1)),
                     <<Return(BinOp(Name("v2"), "Add", Num(1))), ResMinusOne>>,
                     <<ReturnBare, ResPlusOne>>),
                  ResMinusOne, ReturnRes>>),
              CallVal2>>
  /\ Outcome = Raise("ValueError", "Could not resolve the value assigned to res")

\* C22: building the module environment never raises: the step goes on to the lookup of
\* val2, every module binding whose value the literal-only evaluator reduces is in the
\* environment with that value, and every other binding is left out.
C22_Original ==
  [][pc = "flow" =>
       LET module_assigns == DictGet(assignment_map, "module", <<>>)
       IN /\ pc' = "val2"
          /\ \A i \in 1..Len(module_assigns) :
               LET lit == EvaluateLiteral(module_assigns[i][2])
               IN IF lit.ok
                  THEN /\ DictHas(module_env', module_assigns[i][1])
                       /\ DictGet(module_env', module_assigns[i][1], VNone) = lit.v
                  ELSE ~DictHas(module_env', module_assigns[i][1])
          /\ \A i \in 1..Len(module_env') : DictHas(module_assigns, module_env'[i][1])]_allVars

\* the evaluation is of a Name node
IsNameEval(ev) == ev.node.k = "Name"

\* C23: evaluating a Name gives exactly the value the environment binds to it when it is
\* bound (also when that value is None); when it is not bound the evaluation fails with
\* the unknown-name error, a KeyError and not the ValueError of an unsupported construct.
C23_NameLookup ==
  \A i \in 1..Len(evals) :
    IsNameEval(evals[i]) =>
      LET bound == {j \in 1..Len(evals[i].env) : evals[i].env[j][1] = evals[i].node.id}
      IN IF bound # {}
         THEN \A j \in bound : evals[i].res = Ok(evals[i].env[j][2])
         ELSE /\ ~evals[i].res.ok
              /\ evals[i].res.err = "KeyError" /\ evals[i].res.err # "ValueError"
              /\ evals[i].res.msg = "Unknown name"

C23_Witness ==
  /\ pc = "done"
  /\ \E i \in 1..Len(evals) :
       /\ evals[i].node = Name("val2") /\ evals[i].res = Ok(VInt(5))
  /\ \E i \in 1..Len(evals) :
       /\ evals[i].node = Name("res") /\ ~DictHas(evals[i].env, "res")
       /\ evals[i].res.err = "KeyError"

\* the assignment statements of a statement list that lie outside every function
\* definition, in source order
RECURSIVE AssignsOutside(_)
AssignsOutside(stmts) ==
  IF stmts = <<>> THEN <<>>
  ELSE (CASE Head(stmts).k = "Assign" -> <<Head(stmts)>>
          [] Head(stmts).k \in {"If", "While"} ->
               AssignsOutside(Head(stmts).body \o Head(stmts).orelse)
          [] OTHER -> <<>>) \o AssignsOutside(Tail(stmts))

\* the <<name, value node>> pairs the statements give to plain names
RECURSIVE NamedPairs(_)
NamedPairs(stmts) ==
  IF stmts = <<>> THEN <<>>
  ELSE SelectSeq(PairsAsStated(Head(stmts)), IsNamePair) \o NamedPairs(Tail(stmts))

\* C24: after the collection the records under "module" are those of the assignments
\* outside all functions, in order: an assignment lexically inside a function body, of
\* whatever kind of function, is never recorded under "module"; and the scope stack is
\* again ["module"].
C24_Original ==
  pc = "flow" =>
    LET recs == SelectSeq(assignment_records, IsModuleRecord)
        outside == NamedPairs(AssignsOutside(tree))
    IN /\ collector.scope_stack = <<"module">>
       /\ Len(recs) = Len(outside)
       /\ \A i \in 1..Len(recs) :
            recs[i].target = outside[i][1].id /\ recs[i].value_node = outside[i][2]

\* the targets of the assignment include the name res and its value contains a Name v2
Qualifies(stmt) ==
  /\ \E i \in 1..Len(stmt.targets) : stmt.targets[i] = Name("res")
  /\ ExpressionContainsName(stmt.value, "v2")

\* env binds every Name target of the assignment to value and is before elsewhere
BindsTargets(env, before, stmt, value) ==
  /\ \A i \in 1..Len(stmt.targets) :
       stmt.targets[i].k = "Name" =>
         DictHas(env, stmt.targets[i].id) /\ DictGet(env, stmt.targets[i].id, VNone) = value
  /\ \A i \in 1..Len(env) :
       \/ \E j \in 1..Len(stmt.targets) : stmt.targets[j] = Name(env[i][1])
       \/ DictHas(before, env[i][1]) /\ DictGet(before, env[i][1], VNone) = env[i][2]

\* C25: an executed assignment of the callee body whose value has been evaluated ends
\* the walk with that value as the result exactly when its targets include res and its
\* value expression contains a Name v2; otherwise the walk goes on to the next statement
\* with every Name target bound to the value in the activation environment.
C25_Original ==
  [][(/\ pc = "walk" /\ walk_i <= Len(func_def.body)
      /\ func_def.body[walk_i].k = "Assign"
      /\ EvaluateExpression(func_def.body[walk_i].value, local_env).ok)
     => LET stmt == func_def.body[walk_i]
            value == EvaluateExpression(stmt.value, local_env).v
        IN IF Qualifies(stmt)
           THEN pc' = "res" /\ res_value' = value
           ELSE /\ pc' = "walk" /\ walk_i' = walk_i + 1
                /\ BindsTargets(local_env', local_env, stmt, value)]_allVars

\* C26: a step of the walk of the callee body leaves the module environment, the
\* parameter environment, the scope table, the record list and the tree as they were,
\* whatever the body assigns; only the activation environment changes.
C26_WalkFrame ==
  [][pc = "walk" =>
       /\ module_env' = module_env /\ param_env' = param_env
       /\ assignment_map' = assignment_map /\ assignment_records' = assignment_records
       /\ collector' = collector /\ tree' = tree]_allVars

C26_Witness ==
  /\ pc = "done" /\ Outcome = Ok(VStr("1->val2->v2->res->1"))
  /\ func_def # NoNode /\ func_def.body[1] = AssignName("val2", Num(0))
  /\ DictGet(module_env, "val2", VNone) = VInt(1) /\ DictGet(local_env, "val2", VNone) = VInt(0)
  /\ DictGet(param_env, "v2", VNone) = VInt(1) /\ DictGet(local_env, "v2", VNone) = VInt(2)
  /\ ~DictHas(param_env, "val2") /\ ~DictHas(param_env, "res")

\* the parameter names the definition declares, positional-only ones first
DeclaredParameters(def) ==
  (IF "posonlyargs" \in DOMAIN def THEN def.posonlyargs ELSE <<>>) \o def.args

Min(a, b) == IF a < b THEN a ELSE b

\* C27: once the arguments are bound, the parameter environment is the positional pairing
\* of the declared parameter names with the evaluated call arguments: entry i is
\* parameter i with the value of argument i, for every i up to the smaller of the two
\* counts, and there is no other entry.
C27_Original ==
  pc \in {"walk", "res"} =>
    LET names == DeclaredParameters(func_def)
        values == SelectSeq(evals, IsArgEval)
    IN /\ Len(values) = Len(call_assign.value.args)
       /\ Len(param_env) = Min(Len(names), Len(values))
       /\ \A i \in 1..Len(param_env) : param_env[i] = <<names[i], values[i].res.v>>

\* the last evaluation of the run is that of a Return's expression, and it has a value
EndedAtReturn == evals # <<>> /\ evals[Len(evals)].site = "return" /\ evals[Len(evals)].res.ok

\* the chain ends with "res" and the value, and it is what run_pipeline returns
ChainEndsWith(value) ==
  /\ Len(flow_nodes) >= 2
  /\ flow_nodes[Len(flow_nodes) - 1] = VStr("res") /\ flow_nodes[Len(flow_nodes)] = value
  /\ Outcome = Ok(VStr(FlowText(flow_nodes)))

\* the file whose callee is `def simpleCalculator(v2): return v2 + 1`
IsReturnOnly(c) ==
  tree = <<AssignName("val2", Lit(c)),
           FunctionDef("simpleCalculator", <<"v2">>, <<Return(BinOp(Name("v2"), "Add", Num(1)))>>),
           CallVal2>>

IsScenarioAWith(c, site) == tree = <<AssignName("val2", Lit(c)), CalculatorA, site>>

\* a call assignment under an If whose test names the unbound y
CallUnderUnboundTest == If(Eq(Name("y"), Num(0)), <<CallVal2>>, <<>>)

\* call assignments in an else branch, in a nested If and in a While
UnsearchedSites ==
  {If(Eq(Name("val2"), Num(1)), <<AssignName("z", Num(0))>>, <<CallVal2>>),
   If(Eq(Name("val2"), Num(1)), <<If(Eq(Name("val2"), Num(1)), <<CallVal2>>, <<>>)>>, <<>>),
   While(Name("val2"), <<CallVal2>>, <<>>)}

\* C29: the call assignment of the trace is a top-level statement or a statement directly
\* in the body of a top-level If, and the test of a top-level If is never evaluated: a
\* call under a test that could not be evaluated, or that is false, is used all the
\* same, while a call in an else branch, in a nested If or in a While is not found.
C29_IfBodyCallOnly ==
  /\ pc \in {"args", "walk", "res"} =>
       /\ \E i \in 1..Len(LocatableCalls(tree)) : call_assign = LocatableCalls(tree)[i]
       /\ \A i \in 1..Len(tree) : \A j \in 1..Len(evals) :
            tree[i].k = "If" => evals[j].node # tree[i].test
  /\ \A c \in {1, 2} :
       /\ (pc = "done" /\ IsScenarioAWith(c, CallUnderUnboundTest)) =>
            Outcome = Ok(VStr(ToString(c) \o "->val2->v2->res->" \o ToString(c - 1)))
       /\ (pc = "done" /\ IsScenarioAWith(c, If(Eq(Name("val2"), Num(0)), <<CallVal2>>, <<>>))) =>
            Outcome = Ok(VStr(ToString(c) \o "->val2->v2->res->" \o ToString(c - 1)))
       /\ \A site \in UnsearchedSites :
            (pc = "done" /\ IsScenarioAWith(c, site)) =>
              Outcome = Raise("ValueError", "Call to simpleCalculator not found")

C29_Witness ==
  /\ pc = "done" /\ IsScenarioAWith(1, CallUnderUnboundTest)
  /\ call_assign = CallVal2
  /\ Outcome = Ok(VStr("1->val2->v2->res->0"))

\* the expressions of a statement list: the values of its assignments and Returns and
\* the tests of its Ifs, with those of the branches
RECURSIVE ExprNodes(_)
ExprNodes(stmts) ==
  IF stmts = <<>> THEN {}
  ELSE (CASE Head(stmts).k = "Assign" -> {Head(stmts).value}
          [] Head(stmts).k = "Return" /\ Head(stmts).hasValue -> {Head(stmts).value}
          [] Head(stmts).k = "If" ->
               {Head(stmts).test} \cup ExprNodes(Head(stmts).body) \cup ExprNodes(Head(stmts).orelse)
          [] OTHER -> {}) \cup ExprNodes(Tail(stmts))

\* the expressions the walk of the callee body has evaluated
WalkEvaluated == {evals[i].node : i \in {j \in 1..Len(evals) : evals[j].site # "arg"}}

\* the walk of the callee body has begun and is over
WalkOver == pc \in {"res", "done"} /\ func_def # NoNode /\ walk_i >= 1

\* the file of scenario A with another callee body
IsCalleeBody(c, body) ==
  tree = <<AssignName("val2", Num(c)), FunctionDef("simpleCalculator", <<"v2">>, body), CallVal2>>

UnboundTimesTwo == AssignName("z", BinOp(Name("y"), "Mult", Num(2)))

\* C30: when the walk of the callee body is over, no expression of a statement after the
\* one that ended it has been evaluated, and none of the branch that the test of the
\* first statement did not select (expressions that also occur in an executed statement
\* apart); an unbound name or an unsupported operator there leaves the chain as it is.
C30_UnexecutedUntouched ==
  /\ (WalkOver /\ walk_i <= Len(func_def.body)) =>
       WalkEvaluated \cap (ExprNodes(SubSeq(func_def.body, walk_i + 1, Len(func_def.body)))
                             \ ExprNodes(SubSeq(func_def.body, 1, walk_i))) = {}
  /\ (WalkOver /\ func_def.body[1].k = "If"
        /\ EvaluateExpression(func_def.body[1].test, param_env).ok) =>
       WalkEvaluated \cap (ExprNodes(OtherBranch)
                             \ (ExprNodes(TakenBranch) \cup {func_def.body[1].test}
                                  \cup ExprNodes(Tail(func_def.body)))) = {}
  /\ \A c \in {1, 2} :
       (pc = "done" /\ IsCalleeBody(c, <<ResMinusOne, UnboundTimesTwo, ReturnRes>>)) =>
         Outcome = Ok(VStr(ToString(c) \o "->val2->v2->res->" \o ToString(c - 1)))
  /\ (pc = "done"
        /\ IsCalleeBody(1, <<If(Eq(Name("v2"), Num(1)), <<ResPlusOne, UnboundTimesTwo>>,
                                <<AssignName("res", Name("y"))>>), ReturnRes>>)) =>
       Outcome = Ok(VStr("1->val2->v2->res->2"))

C30_Witness ==
  /\ pc = "done"
  /\ IsCalleeBody(1, <<If(Eq(Name("v2"), Num(1)), <<ResPlusOne, UnboundTimesTwo>>,
                          <<AssignName("res", Name("y"))>>), ReturnRes>>)
  /\ Name("y") \notin WalkEvaluated /\ UnboundTimesTwo.value \notin WalkEvaluated
  /\ Outcome = Ok(VStr("1->val2->v2->res->2"))

====
